---- MODULE Spec2Model ----
(***************************************************************************)
(* Model of the MCP music service: the library scanner and playback        *)
(* session of MusicManager, the HTTP playback handlers of ApiServer and    *)
(* the realtime command handlers of WebSocketServer.                       *)
(*                                                                         *)
(* Catalog entries are records [id, path]; ids are the values nanoid()     *)
(* hands out, modelled as a counter (every call returns a fresh value).    *)
(* JavaScript null / undefined for an entry is the record NULL (id 0).     *)
(***************************************************************************)
EXTENDS Integers, Sequences, FiniteSets, TLC

\* ---- bounds -------------------------------------------------------------
MaxFiles == 2
MaxId == 4
MaxClients == 2
MaxScans == 1
MaxOverlap == 2
MaxScanId == 5
MaxTree == 2

\* Longest catalog the queries are run on.
MaxLib == 2

\* Largest configured result cap below the default one.
MaxCap == 1

\* Longest track duration, and the largest duration bound of a filter.
MaxDuration == 2

\* Largest size of a streamed file.
MaxSize == 3

\* Longest listing of the library root in the scans that can fail.
MaxDisk == 2

\* Realtime clients next to the requests that read the session.
MaxFrameClients == 1

Ids == 1..MaxId
ClientIds == 1..MaxClients
ScanSlots == 1..MaxScans
OverlapSlots == 1..MaxOverlap
FrameClients == 1..MaxFrameClients

\* ---- configuration ------------------------------------------------------
reconnectInterval == 5000
maxReconnectAttempts == 5
defaultMaxResults == 100

\* ApiServer._extractPagination: the page and the page size used when the
\* request gives none.
defaultPage == 1

defaultPageSize == 50

\* ---- values -------------------------------------------------------------
NULL == [id |-> 0, path |-> 0]
NoId == 0
NoClient == 0

ErrNone == "none"
ErrNotFound == "music does not exist"
ErrNoCurrent == "no music is playing"
ErrEmptyId == "music id must not be empty"
ErrUnknownType == "unknown message type"
ErrFormat == "message format error"

VARIABLES
  phase,             \* App: "constructed", "starting", "running"
  musicLibrary,      \* MusicManager.musicLibrary: sequence of entries
  currentlyPlaying,  \* MusicManager.currentlyPlaying: entry or NULL
  playbackStatus,    \* MusicManager.playbackStatus
  nextId,            \* next value nanoid() returns for a catalog entry
  scans,             \* in-flight scanLibrary() calls, one per slot
  clients,           \* WebSocketServer.clients: registered client ids
  readyState,        \* ws.readyState of each client's socket
  lastCall,          \* the most recent playback request: who asked for what,
                     \* the status it found, the error thrown, the HTTP
                     \* status answered and the messages sent to each client
  isAlive,           \* client.isAlive of each registered client
  heartbeat,         \* heartbeat ticks so far (parity) and the clients the
                     \* most recent tick terminated
  reconnectAttempts, \* WebSocketServer.reconnectAttempts
  reconnectTimer,    \* WebSocketServer.reconnectTimer: is it pending, its delay
  xiaozhi,           \* outcome of the most recent _connectToXiaoZhi call
  maxResults,        \* config.api.maxResults (0: not set)
  request,           \* the most recent query, list, stream or scan request
  response,          \* what it was answered with
  isScanning,        \* MusicManager.isScanning of the guarded scanner
  handles            \* is heartbeatInterval set, is scanInterval set, the
                     \* state of wss, and has App.stop() run

upstreamVars == <<reconnectAttempts, reconnectTimer, xiaozhi>>

otherVars == <<maxResults, request, response, isScanning, handles>>

vars == <<phase, musicLibrary, currentlyPlaying, playbackStatus, nextId,
          scans, clients, readyState, lastCall, isAlive, heartbeat,
          upstreamVars, otherVars>>

\* ---- MusicManager: lookup and playback transitions ------------------------
RECURSIVE find(_, _, _)
find(lib, id, i) ==
  IF i > Len(lib) THEN NULL
  ELSE IF lib[i].id = id THEN lib[i]
  ELSE find(lib, id, i + 1)

getMusicById(lib, id) == find(lib, id, 1)

\* Each transition yields the error it throws (ErrNone when it returns),
\* the session fields after it and the music of its return value.

\* playMusic with the assignments moved above the existence check.
playMusic_assignFirst(lib, cur, st, musicId) ==
  LET music == find(lib, musicId, 1) IN
  [error |-> IF music = NULL THEN ErrNotFound ELSE ErrNone,
   current |-> music, status |-> "playing", music |-> music]

\* playMusic that keeps the entry already loaded instead of replacing it.
playMusic_keepsLoaded(lib, cur, st, musicId) ==
  LET music == find(lib, musicId, 1) IN
  IF music = NULL
    THEN [error |-> ErrNotFound, current |-> cur, status |-> st, music |-> NULL]
    ELSE [error |-> ErrNone, current |-> IF cur = NULL THEN music ELSE cur,
          status |-> "playing", music |-> music]

playMusic(lib, cur, st, musicId) ==
  LET music == getMusicById(lib, musicId) IN
  IF music = NULL
    THEN [error |-> ErrNotFound, current |-> cur, status |-> st, music |-> NULL]
    ELSE [error |-> ErrNone, current |-> music, status |-> "playing",
          music |-> music]

\* pauseMusic guarded by the status instead of the current entry.
pauseMusic_requiresPlaying(cur, st) ==
  IF st # "playing"
    THEN [error |-> ErrNoCurrent, current |-> cur, status |-> st, music |-> NULL]
    ELSE [error |-> ErrNone, current |-> cur, status |-> "paused", music |-> cur]

pauseMusic(cur, st) ==
  IF cur = NULL
    THEN [error |-> ErrNoCurrent, current |-> cur, status |-> st, music |-> NULL]
    ELSE [error |-> ErrNone, current |-> cur, status |-> "paused", music |-> cur]

\* resumeMusic guarded by the status instead of the current entry.
resumeMusic_requiresPaused(cur, st) ==
  IF st # "paused"
    THEN [error |-> ErrNoCurrent, current |-> cur, status |-> st, music |-> NULL]
    ELSE [error |-> ErrNone, current |-> cur, status |-> "playing", music |-> cur]

\* resumeMusic that restarts from the head of nothing: the entry is dropped.
resumeMusic_dropsEntry(cur, st) ==
  IF cur = NULL
    THEN [error |-> ErrNoCurrent, current |-> cur, status |-> st, music |-> NULL]
    ELSE [error |-> ErrNone, current |-> NULL, status |-> "playing", music |-> cur]

resumeMusic(cur, st) ==
  IF cur = NULL
    THEN [error |-> ErrNoCurrent, current |-> cur, status |-> st, music |-> NULL]
    ELSE [error |-> ErrNone, current |-> cur, status |-> "playing", music |-> cur]

\* stopMusic without the status assignment.
stopMusic_keepsStatus(cur, st) ==
  IF cur = NULL
    THEN [error |-> ErrNoCurrent, current |-> cur, status |-> st, music |-> NULL]
    ELSE [error |-> ErrNone, current |-> NULL, status |-> st, music |-> cur]

\* stopMusic without the guard: stopping when nothing is loaded succeeds.
stopMusic_noGuard(cur, st) ==
  [error |-> ErrNone, current |-> NULL, status |-> "stopped", music |-> cur]

\* stopMusic that resets the status and leaves the entry loaded.
stopMusic_keepsEntry(cur, st) ==
  IF cur = NULL
    THEN [error |-> ErrNoCurrent, current |-> cur, status |-> st, music |-> NULL]
    ELSE [error |-> ErrNone, current |-> cur, status |-> "stopped", music |-> cur]

stopMusic(cur, st) ==
  IF cur = NULL
    THEN [error |-> ErrNoCurrent, current |-> cur, status |-> st, music |-> NULL]
    ELSE [error |-> ErrNone, current |-> NULL, status |-> "stopped", music |-> cur]

\* ---- WebSocketServer: sending ---------------------------------------------
NoSends == [d \in ClientIds |-> <<>>]

sendMessage(rs, data) == IF rs = "OPEN" THEN <<data>> ELSE <<>>

sendMessageToClient(clientId, data) ==
  [d \in ClientIds |->
     IF d = clientId /\ d \in clients THEN sendMessage(readyState[d], data)
     ELSE <<>>]

\* _sendError that sends the error to every registered client.
sendError_toAll(clientId, message) ==
  [d \in ClientIds |->
     IF d \in clients
       THEN sendMessage(readyState[d],
              [type |-> "error", success |-> FALSE, message |-> message,
               music |-> NULL, status |-> "none"])
       ELSE <<>>]

sendError(clientId, message) ==
  sendMessageToClient(clientId,
    [type |-> "error", success |-> FALSE, message |-> message,
     music |-> NULL, status |-> "none"])

\* broadcast that ignores excludeClientId.
broadcast_toAll(data, excludeClientId) ==
  [d \in ClientIds |->
     IF d \in clients THEN sendMessage(readyState[d], data) ELSE <<>>]

broadcast(data, excludeClientId) ==
  [d \in ClientIds |->
     IF d \in clients /\ d # excludeClientId
       THEN sendMessage(readyState[d], data)
       ELSE <<>>]

\* The sends of one handler, in order: a then b.
Then(a, b) == [d \in ClientIds |-> a[d] \o b[d]]

\* reply: the direct playback_update (it carries success: true);
\* update: the broadcast playback_update (no success field).
reply(music, status) ==
  [type |-> "playback_update", success |-> TRUE, message |-> ErrNone,
   music |-> music, status |-> status]

update(music, status) ==
  [type |-> "playback_update", success |-> FALSE, message |-> ErrNone,
   music |-> music, status |-> status]

\* ---- WebSocketServer: playback command handlers ---------------------------
\* Each handler yields the MusicManager result and the messages it sent.
\* A failing handler that also tells the other clients the session's state.
failed_alsoBroadcasts(error, clientId) ==
  [error |-> error, current |-> currentlyPlaying, status |-> playbackStatus,
   music |-> NULL,
   sent |-> Then(sendError(clientId, error),
                 broadcast(update(currentlyPlaying, playbackStatus),
                           clientId))]

failed(error, clientId) ==
  [error |-> error, current |-> currentlyPlaying, status |-> playbackStatus,
   music |-> NULL, sent |-> sendError(clientId, error)]

succeeded(result, clientId, broadcastMusic) ==
  [error |-> ErrNone, current |-> result.current, status |-> result.status,
   music |-> result.music,
   sent |-> Then(sendMessageToClient(clientId,
                                     reply(result.music, result.status)),
                 broadcast(update(broadcastMusic, result.status), clientId))]

handlePlayCommand(clientId, id) ==
  IF id = NoId THEN failed(ErrEmptyId, clientId)
  ELSE LET result == playMusic(musicLibrary, currentlyPlaying,
                               playbackStatus, id) IN
       IF result.error # ErrNone THEN failed(result.error, clientId)
       ELSE succeeded(result, clientId, result.music)

handlePauseCommand(clientId) ==
  LET result == pauseMusic(currentlyPlaying, playbackStatus) IN
  IF result.error # ErrNone THEN failed(result.error, clientId)
  ELSE succeeded(result, clientId, result.music)

handleResumeCommand(clientId) ==
  LET result == resumeMusic(currentlyPlaying, playbackStatus) IN
  IF result.error # ErrNone THEN failed(result.error, clientId)
  ELSE succeeded(result, clientId, result.music)

handleStopCommand(clientId) ==
  LET result == stopMusic(currentlyPlaying, playbackStatus) IN
  IF result.error # ErrNone THEN failed(result.error, clientId)
  ELSE succeeded(result, clientId, NULL)

\* _sendPlaybackStatus: the session as getPlaybackStatus() reports it.
sendPlaybackStatus_stopped(rs) ==
  sendMessage(rs, [type |-> "playback_status", current |-> NULL,
                   status |-> "stopped"])

sendPlaybackStatus(rs) ==
  sendMessage(rs, [type |-> "playback_status", current |-> currentlyPlaying,
                   status |-> playbackStatus])

\* The two sends of the 'connection' handler, to the new socket (it is open).
welcome(clientId) == [type |-> "welcome", clientId |-> clientId]

connectionSends(clientId) ==
  [d \in ClientIds |->
     IF d = clientId
       THEN sendMessage("OPEN", welcome(clientId)) \o sendPlaybackStatus("OPEN")
       ELSE <<>>]

handlePing(clientId) ==
  [error |-> ErrNone, current |-> currentlyPlaying, status |-> playbackStatus,
   music |-> NULL, sent |-> sendMessageToClient(clientId, [type |-> "pong"])]

handleStatusRequest(clientId) ==
  [error |-> ErrNone, current |-> currentlyPlaying, status |-> playbackStatus,
   music |-> NULL,
   sent |-> [d \in ClientIds |->
               IF d = clientId /\ d \in clients
                 THEN sendPlaybackStatus(readyState[d]) ELSE <<>>]]

\* The types _handleMessage's switch has a case for.
KnownTypes == {"ping", "play", "pause", "resume", "stop", "search", "status"}

\* _handleMessage: type "malformed" stands for a payload JSON.parse (or the
\* read of data.type) throws on, any type outside KnownTypes takes the
\* default branch.  The search command is not modelled here.
handleMessage(clientId, type, id) ==
  CASE type = "malformed" -> failed(ErrFormat, clientId)
    [] type = "ping" -> handlePing(clientId)
    [] type = "play" -> handlePlayCommand(clientId, id)
    [] type = "pause" -> handlePauseCommand(clientId)
    [] type = "resume" -> handleResumeCommand(clientId)
    [] type = "stop" -> handleStopCommand(clientId)
    [] type = "status" -> handleStatusRequest(clientId)
    [] type \notin KnownTypes \cup {"malformed"} ->
         failed(ErrUnknownType, clientId)

\* ---- ApiServer: playback handlers ----------------------------------------
\* The HTTP handlers answer the caller and send nothing to realtime clients.
httpResponse(result, errorStatus) ==
  [error |-> result.error, current |-> result.current,
   status |-> result.status, music |-> result.music,
   code |-> IF result.error = ErrNone THEN 200 ELSE errorStatus]

handlePlayMusic(id) ==
  httpResponse(playMusic(musicLibrary, currentlyPlaying, playbackStatus, id),
               404)

handlePauseMusic == httpResponse(pauseMusic(currentlyPlaying, playbackStatus), 400)

handleResumeMusic == httpResponse(resumeMusic(currentlyPlaying, playbackStatus), 400)

handleStopMusic == httpResponse(stopMusic(currentlyPlaying, playbackStatus), 400)

handleHttp(op, id) ==
  CASE op = "play" -> handlePlayMusic(id)
    [] op = "pause" -> handlePauseMusic
    [] op = "resume" -> handleResumeMusic
    [] op = "stop" -> handleStopMusic

\* ---- state machine ------------------------------------------------------
IdleScan == [pc |-> "idle", files |-> <<>>]

NoCall ==
  [via |-> "none", client |-> NoClient, op |-> "none", id |-> NoId,
   from |-> "stopped", error |-> ErrNone, code |-> 0, sent |-> NoSends]

NoHeartbeat == [tick |-> 0, terminated |-> {}]

\* live counts the timers that were set and have neither fired nor been
\* cleared; pending says that of the one this.reconnectTimer refers to.
NoTimer == [pending |-> FALSE, delay |-> 0, live |-> 0]

NoRequest == [op |-> "none"]

\* No interval is set and there is no WebSocket.Server yet.
NoHandles ==
  [heartbeatInterval |-> FALSE, scanInterval |-> FALSE, wss |-> "none",
   stopped |-> FALSE]

\* _setupPeriodicScan, and WebSocketServer.initialize with the listening
\* HTTP server: the server is created and _setupHeartbeat sets the interval.
setupPeriodicScan(h) == [h EXCEPT !.scanInterval = TRUE]

initializeHub(h) == [h EXCEPT !.wss = "open", !.heartbeatInterval = TRUE]

\* The handles of the started application.
Serving == initializeHub(setupPeriodicScan(NoHandles))

NoResponse == [status |-> 0]

Init ==
  /\ phase = "constructed"
  /\ musicLibrary = <<>>
  /\ currentlyPlaying = NULL
  /\ playbackStatus = "stopped"
  /\ nextId = 1
  /\ scans = [s \in ScanSlots \cup OverlapSlots |-> IdleScan]
  /\ clients = {}
  /\ readyState = [c \in ClientIds |-> "CLOSED"]
  /\ lastCall = NoCall
  /\ isAlive = [c \in ClientIds |-> FALSE]
  /\ heartbeat = NoHeartbeat
  /\ reconnectAttempts = 0
  /\ reconnectTimer = NoTimer
  /\ xiaozhi = "idle"
  /\ maxResults = defaultMaxResults
  /\ request = NoRequest
  /\ response = NoResponse
  /\ isScanning = FALSE
  /\ handles = NoHandles

\* scanLibrary() up to its first await: the library is emptied and the
\* directory walk is started.
scanLibrary(s) ==
  /\ scans[s].pc = "idle"
  /\ \A t \in DOMAIN scans : t < s => scans[t].pc # "idle"
  /\ musicLibrary' = <<>>
  /\ scans' = [scans EXCEPT ![s] = [pc |-> "listing", files |-> <<>>]]

\* _scanDirectory: the files below the library path, in walk order.
RECURSIVE scanDirectory(_)
scanDirectory(n) == IF n = 0 THEN <<>> ELSE Append(scanDirectory(n - 1), n)

\* _extractMusicInfo: the entry built for one file, with a fresh id.
extractMusicInfo(filePath, id) == [id |-> id, path |-> filePath]

\* App.initialize -> MusicManager.initialize: the startup scan begins.
Initialize ==
  /\ phase = "constructed"
  /\ phase' = "starting"
  /\ scanLibrary(1)
  /\ UNCHANGED <<currentlyPlaying, playbackStatus, nextId, clients,
                 readyState, lastCall, isAlive, heartbeat,
                 upstreamVars,
                 otherVars>>

\* The periodic timer fires, POST /music/scan arrives, or an upload was moved
\* into the library.
ScanRequest(s) ==
  /\ phase = "running"
  /\ scanLibrary(s)
  /\ UNCHANGED <<phase, currentlyPlaying, playbackStatus, nextId, clients,
                 readyState, lastCall, isAlive, heartbeat,
                 upstreamVars,
                 otherVars>>

\* The awaited _scanDirectory resolves.
ScanListed(s) ==
  /\ scans[s].pc = "listing"
  /\ scans' = [scans EXCEPT ![s].pc = "extracting",
                            ![s].files = scanDirectory(MaxFiles)]
  /\ UNCHANGED <<phase, musicLibrary, currentlyPlaying, playbackStatus,
                 nextId, clients, readyState, lastCall, isAlive, heartbeat,
                 upstreamVars,
                 otherVars>>

\* One iteration of the per-file loop: the awaited _extractMusicInfo resolves
\* and its entry is pushed onto this.musicLibrary.
ScanExtractTo(s, limit) ==
  /\ scans[s].pc = "extracting"
  /\ scans[s].files # <<>>
  /\ nextId <= limit
  /\ musicLibrary' = Append(musicLibrary,
                            extractMusicInfo(Head(scans[s].files), nextId))
  /\ nextId' = nextId + 1
  /\ scans' = [scans EXCEPT ![s].files = Tail(scans[s].files)]
  /\ UNCHANGED <<phase, currentlyPlaying, playbackStatus, clients,
                 readyState, lastCall, isAlive, heartbeat,
                 upstreamVars,
                 otherVars>>

ScanExtract(s) == ScanExtractTo(s, MaxId)

\* The loop is over and scanLibrary returns; after the startup scan the
\* periodic scan is set up, the application starts listening and the hub
\* is initialized on the listening server.
ScanDone(s) ==
  /\ scans[s].pc = "extracting"
  /\ scans[s].files = <<>>
  /\ scans' = [scans EXCEPT ![s] = IdleScan]
  /\ phase' = "running"
  /\ handles' = IF phase = "starting"
                THEN initializeHub(setupPeriodicScan(handles)) ELSE handles
  /\ UNCHANGED <<musicLibrary, currentlyPlaying, playbackStatus, nextId,
                 clients, readyState, lastCall, isAlive, heartbeat,
                 upstreamVars, maxResults, request, response, isScanning>>

\* this.clients.set(clientId, {ws, ..., isAlive: true}) for a new socket.
register(c) ==
  /\ clients' = clients \cup {c}
  /\ readyState' = [readyState EXCEPT ![c] = "OPEN"]
  /\ isAlive' = [isAlive EXCEPT ![c] = TRUE]

\* wss 'connection': the client is registered (its socket is open).
Connect(c) ==
  /\ phase = "running"
  /\ c \notin clients
  /\ register(c)
  /\ UNCHANGED <<phase, musicLibrary, currentlyPlaying, playbackStatus,
                 nextId, scans, lastCall, heartbeat, upstreamVars,
                 otherVars>>

\* The peer starts closing: the socket leaves OPEN before 'close' is emitted.
Closing(c) ==
  /\ c \in clients
  /\ readyState[c] = "OPEN"
  /\ readyState' = [readyState EXCEPT ![c] = "CLOSING"]
  /\ UNCHANGED <<phase, musicLibrary, currentlyPlaying, playbackStatus,
                 nextId, scans, clients, lastCall, isAlive, heartbeat,
                 upstreamVars,
                 otherVars>>

\* ws 'close': the client is removed from the registry.
Close(c) ==
  /\ c \in clients
  /\ clients' = clients \ {c}
  /\ readyState' = [readyState EXCEPT ![c] = "CLOSED"]
  /\ isAlive' = [isAlive EXCEPT ![c] = FALSE]
  /\ UNCHANGED <<phase, musicLibrary, currentlyPlaying, playbackStatus,
                 nextId, scans, lastCall, heartbeat, upstreamVars,
                 otherVars>>

OpenClients == {c \in clients : readyState[c] = "OPEN"}

Call(via, c, op, id, r, code, sent) ==
  /\ currentlyPlaying' = r.current
  /\ playbackStatus' = r.status
  /\ lastCall' = [via |-> via, client |-> c, op |-> op, id |-> id,
                  from |-> playbackStatus, error |-> r.error, code |-> code,
                  sent |-> sent]
  /\ UNCHANGED <<phase, musicLibrary, nextId, scans, clients, readyState,
                 isAlive, heartbeat, upstreamVars,
                 otherVars>>

\* POST /playback/play/:id, /playback/pause, /playback/resume, /playback/stop
HttpPlayback(op, id) ==
  /\ phase = "running"
  /\ op = "play" <=> id # NoId
  /\ LET r == handleHttp(op, id) IN
     Call("http", NoClient, op, id, r, r.code, NoSends)

\* ws 'message' with a playback command from a registered, open client.
WsPlayback(c, type, id) ==
  /\ phase = "running"
  /\ c \in clients
  /\ readyState[c] = "OPEN"
  /\ type # "play" => id = NoId
  /\ LET r == handleMessage(c, type, id) IN
     Call("ws", c, type, id, r, 0, r.sent)

PlaybackOps == {"play", "pause", "resume", "stop"}

\* wss 'connection' with its sends recorded: the client is registered, then
\* sent the welcome and the playback status; only then are its listeners set.
Connection(c) ==
  /\ phase = "running"
  /\ c \notin clients
  /\ register(c)
  /\ lastCall' = [via |-> "ws", client |-> c, op |-> "connect", id |-> NoId,
                  from |-> playbackStatus, error |-> ErrNone, code |-> 0,
                  sent |-> connectionSends(c)]
  /\ UNCHANGED <<phase, musicLibrary, currentlyPlaying, playbackStatus,
                 nextId, scans, heartbeat, upstreamVars,
                 otherVars>>

\* Message types other than the playback commands that clients send here:
\* "bogus" is a type the switch has no case for.
OtherTypes == {"ping", "status", "bogus", "malformed"}

\* ws 'message' with one of the other types from a registered, open client.
WsMessage(c, type) ==
  /\ phase = "running"
  /\ c \in clients
  /\ readyState[c] = "OPEN"
  /\ LET r == handleMessage(c, type, NoId) IN
     Call("ws", c, type, NoId, r, 0, r.sent)

\* ws 'pong': the client answered the last ping.
Pong(c) ==
  /\ c \in clients
  /\ readyState[c] = "OPEN"
  /\ isAlive' = [isAlive EXCEPT ![c] = TRUE]
  /\ UNCHANGED <<phase, musicLibrary, currentlyPlaying, playbackStatus,
                 nextId, scans, clients, readyState, lastCall, heartbeat,
                 upstreamVars,
                 otherVars>>

\* The clients a heartbeat tick keeps: those that answered since the last one.
heartbeatKeeps_all == clients

\* A tick that terminates every client, answered or not.
heartbeatKeeps_none == {}

heartbeatKeeps == {c \in clients : isAlive[c]}

\* The heartbeat interval fires: every registered client that is not alive
\* is terminated and deleted, every other one is marked not alive and pinged.
Heartbeat ==
  /\ phase = "running"
  /\ clients' = heartbeatKeeps
  /\ isAlive' = [c \in ClientIds |-> FALSE]
  /\ readyState' = [c \in ClientIds |->
                      IF c \in clients \ heartbeatKeeps THEN "CLOSED"
                      ELSE readyState[c]]
  /\ heartbeat' = [tick |-> 1 - heartbeat.tick,
                   terminated |-> clients \ heartbeatKeeps]
  /\ UNCHANGED <<phase, musicLibrary, currentlyPlaying, playbackStatus,
                 nextId, scans, lastCall, upstreamVars,
                 otherVars>>

Next ==
  \/ Initialize
  \/ \E s \in ScanSlots : ScanRequest(s)
  \/ \E s \in ScanSlots : ScanListed(s)
  \/ \E s \in ScanSlots : ScanExtract(s)
  \/ \E s \in ScanSlots : ScanDone(s)
  \/ \E c \in ClientIds : Connect(c)
  \/ \E c \in ClientIds : Closing(c)
  \/ \E c \in ClientIds : Close(c)
  \/ \E op \in PlaybackOps, id \in Ids \cup {NoId} : HttpPlayback(op, id)
  \/ \E c \in ClientIds, type \in PlaybackOps, id \in Ids \cup {NoId} :
       WsPlayback(c, type, id)

Spec == Init /\ [][Next]_vars

\* The scanner with overlapping scanLibrary() calls: the periodic timer,
\* POST /music/scan and an upload each start one whether or not another is
\* running, and HTTP playback requests read the catalog in between.
NextScan ==
  \/ Initialize
  \/ \E s \in OverlapSlots : ScanRequest(s)
  \/ \E s \in OverlapSlots : ScanListed(s)
  \/ \E s \in OverlapSlots : ScanExtractTo(s, MaxScanId)
  \/ \E s \in OverlapSlots : ScanDone(s)
  \/ \E op \in PlaybackOps, id \in 0..MaxScanId : HttpPlayback(op, id)

SpecScan == Init /\ [][NextScan]_vars

\* ---- MusicManager: the directory walk and metadata extraction -------------
\* config.music.supportedFormats
supportedFormats == {"mp3", "wav", "flac", "m4a", "aac", "ogg"}

\* File names are records [stem, ext]: the text before and after the last
\* dot; ext "" is a name without a dot, stem "" a dotfile such as ".mp3".
Exts == {"mp3", "MP3", "flac", "txt", ""}

Names ==
  {[stem |-> "a", ext |-> e] : e \in Exts} \cup {[stem |-> "", ext |-> "mp3"]}

\* String.prototype.toLowerCase on the extensions above and on the texts of
\* the queries: the strings with an upper-case letter, and what they become.
UpperCased == <<"MP3", "Ab", "AB", "Cd", "B", "T", "L", "G">>

LowerCased == <<"mp3", "ab", "ab", "cd", "b", "t", "l", "g">>

toLowerCase(str) ==
  IF \E i \in DOMAIN UpperCased : UpperCased[i] = str
  THEN LowerCased[CHOOSE i \in DOMAIN UpperCased : UpperCased[i] = str]
  ELSE str

\* path.extname, without its leading dot (both callers drop it with
\* substring(1)): empty for a name without a dot and for a dotfile.
extname(name) == IF name.stem = "" THEN "" ELSE name.ext

\* path.basename(filePath) and path.basename(filePath, extname).
basename(name) == <<name.stem, name.ext>>

basenameWithoutExt(name) ==
  IF name.stem = "" THEN <<name.stem, name.ext>> ELSE <<name.stem>>

\* _isSupportedFormat that compares the extension as it is spelled.
isSupportedFormat_caseSensitive(name) == extname(name) \in supportedFormats

isSupportedFormat(name) == toLowerCase(extname(name)) \in supportedFormats

\* A directory listing: files (whose metadata parseFile can or cannot read)
\* and subdirectories holding files.
FileItems ==
  {[kind |-> "file", name |-> n, parsable |-> b] : n \in Names, b \in BOOLEAN}

DirItems ==
  {[kind |-> "dir", name |-> [stem |-> "d", ext |-> "mp3"], items |-> fs] :
     fs \in {<<>>} \cup {<<f>> : f \in FileItems}}

Trees == UNION {[1..n -> FileItems \cup DirItems] : n \in 0..MaxTree}

\* _scanDirectory from item i of a listing on: the supported files in walk
\* order, subdirectories entered in place.  A path is the position of the
\* file in the tree with its name.
RECURSIVE scanDirectoryFrom(_, _, _)
scanDirectoryFrom(items, at, i) ==
  IF i > Len(items) THEN <<>>
  ELSE LET item == items[i]
           fullPath == Append(at, i)
       IN (IF item.kind = "dir"
             THEN scanDirectoryFrom(item.items, fullPath, 1)
           ELSE IF isSupportedFormat(item.name)
             THEN <<[at |-> fullPath, name |-> item.name,
                     parsable |-> item.parsable]>>
           ELSE <<>>)
          \o scanDirectoryFrom(items, at, i + 1)

\* new Date(value).toISOString(): a number is a valid time value, any other
\* object converts to NaN and toISOString throws on the invalid date.
InvalidDate == [type |-> "date", valid |-> FALSE]

newDate(value) ==
  IF value.type = "number" THEN [type |-> "date", valid |-> TRUE]
  ELSE InvalidDate

\* fs.stat resolves to a Stats object.
stat(filePath) == [type |-> "object", isFile |-> TRUE]

\* The object the try branch of _extractMusicInfo builds from parsed
\* metadata; tags a file does not carry take their || defaults.
musicInfo(filePath, id) ==
  [id |-> id, title |-> basenameWithoutExt(filePath.name),
   artist |-> "unknown artist", album |-> "unknown album",
   genre |-> <<"unknown genre">>, duration |-> 0, year |-> "unknown year",
   trackNumber |-> 0, discNumber |-> 1, path |-> filePath.at,
   filename |-> basename(filePath.name), format |-> extname(filePath.name),
   coverArt |-> FALSE, bitrate |-> 0, sampleRate |-> 0, channels |-> 2,
   addedAt |-> "now", modifiedAt |-> "mtime"]

\* The object the catch branch returns.
fallbackInfo(filePath, id) ==
  [id |-> id, title |-> basenameWithoutExt(filePath.name),
   artist |-> "unknown artist", album |-> "unknown album",
   genre |-> <<"unknown genre">>, duration |-> 0, year |-> "unknown year",
   path |-> filePath.at, filename |-> basename(filePath.name),
   format |-> extname(filePath.name), coverArt |-> FALSE, addedAt |-> "now"]

\* _extractMusicInfo: parseFile throws on an unparsable file; otherwise
\* nanoid() is called and the object is built up to modifiedAt, where
\* toISOString throws when the date is invalid; either throw lands in the
\* catch branch, which calls nanoid() again.
extractEntry(filePath, id) ==
  IF ~filePath.parsable THEN [entry |-> fallbackInfo(filePath, id), ids |-> 1]
  ELSE IF newDate(stat(filePath)) = InvalidDate
    THEN [entry |-> fallbackInfo(filePath, id + 1), ids |-> 2]
  ELSE [entry |-> musicInfo(filePath, id), ids |-> 1]

\* The per-file loop of scanLibrary over the walked files.
RECURSIVE scanFiles(_, _, _)
scanFiles(files, i, id) ==
  IF i > Len(files) THEN <<>>
  ELSE LET r == extractEntry(files[i], id) IN
       <<r.entry>> \o scanFiles(files, i + 1, id + r.ids)

\* The startup scan of a directory tree, start to end (nothing else runs
\* before the server listens).
ScanTree(tree) ==
  /\ phase = "constructed"
  /\ phase' = "running"
  /\ request' = [op |-> "scan", tree |-> tree]
  /\ musicLibrary' = scanFiles(scanDirectoryFrom(tree, <<>>, 1), 1, 1)
  /\ UNCHANGED <<currentlyPlaying, playbackStatus, nextId, scans, clients,
                 readyState, lastCall, isAlive, heartbeat, upstreamVars,
                 handles, maxResults, response, isScanning>>

NextExtract == \E tree \in Trees : ScanTree(tree)

SpecExtract == Init /\ [][NextExtract]_vars

\* ---- MusicManager: a scan of a library that cannot be read everywhere ------
\* The library directory as a scan finds it: is the root accessible, and
\* its listing of audio files (parsable or not) and of subdirectories
\* (readable, with one audio file, or not readable).
AudioFiles ==
  {[kind |-> "file", name |-> [stem |-> "a", ext |-> "mp3"], parsable |-> b] :
     b \in BOOLEAN}

SubDirs ==
  {[kind |-> "dir", name |-> [stem |-> "d", ext |-> ""], items |-> <<f>>,
    readable |-> TRUE] : f \in AudioFiles}
  \cup {[kind |-> "dir", name |-> [stem |-> "d", ext |-> ""], items |-> <<>>,
         readable |-> FALSE]}

Disks ==
  [accessible : BOOLEAN,
   items : UNION {[1..n -> AudioFiles \cup SubDirs] : n \in 0..MaxDisk}]

\* fs.readdir rejects for a directory that cannot be read; _scanDirectory
\* has no try around it nor around the recursive call, so the walk rejects.
RECURSIVE readdirThrows(_, _)
readdirThrows(items, i) ==
  /\ i <= Len(items)
  /\ \/ /\ items[i].kind = "dir"
        /\ ~items[i].readable \/ readdirThrows(items[i].items, 1)
     \/ readdirThrows(items, i + 1)

scanDirectoryThrows(disk) ==
  ~disk.accessible \/ readdirThrows(disk.items, 1)

\* The nanoid() calls the per-file loop makes over the walked files.
RECURSIVE idsUsed(_, _, _)
idsUsed(files, i, id) ==
  IF i > Len(files) THEN 0
  ELSE extractEntry(files[i], id).ids
         + idsUsed(files, i + 1, id + extractEntry(files[i], id).ids)

\* scanLibrary() from start to end on the given disk: the library is
\* emptied, the directory is walked, and only then is an entry pushed for
\* every file found; a walk that rejects is logged and rethrown.
scanLibraryOn(disk) ==
  IF scanDirectoryThrows(disk)
  THEN /\ musicLibrary' = <<>>
       /\ UNCHANGED nextId
  ELSE LET files == scanDirectoryFrom(disk.items, <<>>, 1) IN
       /\ musicLibrary' = scanFiles(files, 1, nextId)
       /\ nextId' = nextId + idsUsed(files, 1, nextId)

ScanFrame ==
  UNCHANGED <<currentlyPlaying, playbackStatus, scans, clients, readyState,
              lastCall, isAlive, heartbeat, upstreamVars, handles, maxResults,
              isScanning>>

\* App.start(): the startup scan; when it rejects, initialize() and start()
\* rethrow and the server never listens.
StartupScanOn(disk) ==
  /\ phase = "constructed"
  /\ phase' = IF scanDirectoryThrows(disk) THEN "failed" ELSE "running"
  /\ scanLibraryOn(disk)
  /\ request' = [op |-> "scan", by |-> "startup", disk |-> disk]
  /\ response' = [status |-> 0, threw |-> scanDirectoryThrows(disk),
                  total |-> Len(musicLibrary')]
  /\ ScanFrame

\* The periodic scan (by = "timer": a rejection is logged) and
\* POST /api/music/scan (by = "post": 200 with the total, or 500).
RescanOn(by, disk) ==
  /\ phase = "running"
  /\ nextId <= MaxScanId
  /\ scanLibraryOn(disk)
  /\ request' = [op |-> "scan", by |-> by, disk |-> disk]
  /\ response' = [status |-> IF by = "timer" THEN 0
                             ELSE IF scanDirectoryThrows(disk) THEN 500
                             ELSE 200,
                  threw |-> scanDirectoryThrows(disk),
                  total |-> Len(musicLibrary')]
  /\ phase' = phase
  /\ ScanFrame

NextScanOn ==
  \E disk \in Disks :
     \/ StartupScanOn(disk)
     \/ \E by \in {"timer", "post"} : RescanOn(by, disk)

SpecScanOn == Init /\ [][NextScanOn]_vars

\* ---- MusicManager and ApiServer: search, filters and paging ---------------
\* The letters of a lower-cased text of the queries.
chars(str) ==
  CASE str = "ab" -> <<"a", "b">>
    [] str = "cd" -> <<"c", "d">>
    [] str = "" -> <<>>
    [] OTHER -> <<str>>

\* String.prototype.includes
includes(str, sub) ==
  \E i \in 1..(Len(chars(str)) + 1) :
     /\ i + Len(chars(sub)) - 1 <= Len(chars(str))
     /\ SubSeq(chars(str), i, i + Len(chars(sub)) - 1) = chars(sub)

\* String.prototype.trim on the texts of the queries.
trim(str) == IF str = " " THEN "" ELSE str

\* Decimal numerals: the text of a number in a query string, and
\* parseInt / parseFloat on such a text.
Numerals == <<"0", "1", "2", "3", "4", "5", "6", "7", "8", "9">>

numeral(n) == Numerals[n + 1]

parseNumber(str) == (CHOOSE i \in DOMAIN Numerals : Numerals[i] = str) - 1

\* Array.prototype.slice(start, end) with 0 <= start.
slice(list, start, end) ==
  SubSeq(list, start + 1, IF end < Len(list) THEN end ELSE Len(list))

\* _applyFilters, its last step: the result is cut to config.api.maxResults.
capResults_dropLast(list) ==
  IF maxResults # 0 /\ Len(list) > maxResults
  THEN slice(list, 0, maxResults - 1) ELSE list

capResults(list) ==
  IF maxResults # 0 /\ Len(list) > maxResults
  THEN slice(list, 0, maxResults) ELSE list

\* filters.<key> is given; _extractFilters leaves out the empty texts, and
\* the duration bounds are tested against 0 where they are used.
given(filters, key) == key \in DOMAIN filters

\* _applyFilters(list, filters)
applyFilters(list, filters) ==
  LET byArtist(music) ==
        given(filters, "artist") =>
          includes(toLowerCase(music.artist), toLowerCase(filters.artist))
      byAlbum(music) ==
        given(filters, "album") =>
          includes(toLowerCase(music.album), toLowerCase(filters.album))
      byGenre(music) ==
        given(filters, "genre") =>
          \E g \in DOMAIN music.genre :
             includes(toLowerCase(music.genre[g]), toLowerCase(filters.genre))
      byFormat(music) ==
        given(filters, "format") =>
          music.format = toLowerCase(filters.format)
      byMin(music) ==
        (given(filters, "minDuration") /\ filters.minDuration # 0) =>
          music.duration >= filters.minDuration
      byMax(music) ==
        (given(filters, "maxDuration") /\ filters.maxDuration # 0) =>
          music.duration <= filters.maxDuration
      keep(music) ==
        /\ byArtist(music) /\ byAlbum(music) /\ byGenre(music)
        /\ byFormat(music) /\ byMin(music) /\ byMax(music)
  IN capResults(SelectSeq(list, keep))

\* searchMusic(query, filters)
searchMusic(query, filters) ==
  LET lowerQuery == trim(toLowerCase(query))
      matches(music) ==
        \/ includes(toLowerCase(music.title), lowerQuery)
        \/ includes(toLowerCase(music.artist), lowerQuery)
        \/ includes(toLowerCase(music.album), lowerQuery)
        \/ \E g \in DOMAIN music.genre :
              includes(toLowerCase(music.genre[g]), lowerQuery)
  IN IF query = "" \/ trim(query) = ""
     THEN applyFilters(musicLibrary, filters)
     ELSE applyFilters(SelectSeq(musicLibrary, matches), filters)

\* Math.ceil(a / b) for 0 <= a and 0 < b.
ceilDiv(a, b) == (a + b - 1) \div b

\* getMusicList(filters, pagination)
getMusicList(filters, pagination) ==
  LET list == applyFilters(musicLibrary, filters)
      start == (pagination.page - 1) * pagination.pageSize
  IN [items |-> slice(list, start, start + pagination.pageSize),
      total |-> Len(list),
      page |-> pagination.page,
      pageSize |-> pagination.pageSize,
      totalPages |-> ceilDiv(Len(list), pagination.pageSize)]

\* The parameters of a request's query string: a function from the names
\* that are present to their texts.
FilterKeys == {"artist", "format", "minDuration", "maxDuration"}

ParamValues(key) ==
  CASE key = "artist" -> {"AB"}
    [] key = "format" -> {"MP3"}
    [] key = "query" -> {" ", "B"}
    [] key = "page" -> {numeral(n) : n \in 1..(MaxLib + 1)}
    [] key = "pageSize" -> {numeral(n) : n \in 1..MaxLib}
    [] OTHER -> {numeral(0), numeral(MaxDuration)}

QueriesOver(keys) ==
  UNION {{q \in [ks -> UNION {ParamValues(k) : k \in keys}] :
            \A k \in ks : q[k] \in ParamValues(k)} : ks \in SUBSET keys}

\* _extractFilters(query): the filters that are present and not empty, the
\* duration bounds as numbers.
extractFilters(query) ==
  [k \in {key \in DOMAIN query \cap {"artist", "album", "genre", "format",
                                       "minDuration", "maxDuration"} :
            query[key] # ""} |->
     IF k \in {"minDuration", "maxDuration"}
     THEN parseNumber(query[k]) ELSE query[k]]

\* _extractPagination(query): parseInt(...) || default
extractPagination(query) ==
  LET orDefault(key, default) ==
        IF key \in DOMAIN query /\ parseNumber(query[key]) # 0
        THEN parseNumber(query[key]) ELSE default
  IN [page |-> orDefault("page", defaultPage),
      pageSize |-> orDefault("pageSize", defaultPageSize)]

\* GET /api/music/search
handleMusicSearch(query) ==
  LET text == IF "query" \in DOMAIN query THEN query.query ELSE ""
      results == searchMusic(text, extractFilters(query))
  IN /\ request' = [op |-> "search", text |-> text,
                    filters |-> extractFilters(query)]
     /\ response' = [status |-> 200, success |-> TRUE, results |-> results,
                     total |-> Len(results)]

\* GET /api/music/list
handleMusicList(query) ==
  LET result == getMusicList(extractFilters(query), extractPagination(query))
  IN /\ request' = [op |-> "list", filters |-> extractFilters(query),
                    given |-> DOMAIN query \cap {"page", "pageSize"}]
     /\ response' = [status |-> 200, success |-> TRUE, items |-> result.items,
                     page |-> result.page, pageSize |-> result.pageSize,
                     total |-> result.total,
                     totalPages |-> result.totalPages]

\* The catalogs the queries are run on: entries as the queries read them.
Artists == {"Ab", "Cd"}

Tracks ==
  [title : {"T"}, artist : Artists, album : {"L"}, genre : {<<"G">>},
   duration : {0, MaxDuration}, format : {"mp3", "flac"}]

Libraries ==
  UNION {{[i \in 1..n |->
             [id |-> i, path |-> i, title |-> t[i].title,
              artist |-> t[i].artist, album |-> t[i].album,
              genre |-> t[i].genre, duration |-> t[i].duration,
              format |-> t[i].format]] : t \in [1..n -> Tracks]}
         : n \in 0..MaxLib}

\* config.api.maxResults: not set (0), a small cap, or the default.
Caps == 0..MaxCap \cup {defaultMaxResults}

InitQuery ==
  /\ phase = "running"
  /\ musicLibrary \in Libraries
  /\ maxResults \in Caps
  /\ currentlyPlaying = NULL
  /\ playbackStatus = "stopped"
  /\ nextId = MaxLib + 1
  /\ scans = [s \in ScanSlots \cup OverlapSlots |-> IdleScan]
  /\ clients = {}
  /\ readyState = [c \in ClientIds |-> "CLOSED"]
  /\ lastCall = NoCall
  /\ isAlive = [c \in ClientIds |-> FALSE]
  /\ heartbeat = NoHeartbeat
  /\ reconnectAttempts = 0
  /\ reconnectTimer = NoTimer
  /\ xiaozhi = "idle"
  /\ request = NoRequest
  /\ response = NoResponse
  /\ isScanning = FALSE
  /\ handles = Serving

QueryFrame ==
  UNCHANGED <<phase, musicLibrary, currentlyPlaying, playbackStatus, nextId,
              scans, clients, readyState, lastCall, isAlive, heartbeat,
              upstreamVars, handles, maxResults, isScanning>>

\* One request of each behaviour is followed: the handlers read the catalog
\* and the configuration and change neither.
MusicSearch(query) ==
  /\ request = NoRequest
  /\ handleMusicSearch(query)
  /\ QueryFrame

MusicList(query) ==
  /\ request = NoRequest
  /\ handleMusicList(query)
  /\ QueryFrame

NextQuery ==
  \/ \E query \in QueriesOver(FilterKeys \cup {"query"}) : MusicSearch(query)
  \/ \E query \in QueriesOver({"artist", "maxDuration", "page", "pageSize"}) :
        MusicList(query)

SpecQuery == InitQuery /\ [][NextQuery]_vars

\* ---- ApiServer: streaming a file -------------------------------------------
\* The Range header after range.replace(/bytes=/, "").split("-"): the texts
\* before and after the dash. "" is a missing bound, "x" is not a number.
RangeParts == {"", "x"} \cup {numeral(n) : n \in 0..(MaxSize + 1)}

Ranges == [first : RangeParts, last : RangeParts]

NoRange == [first |-> "none", last |-> "none"]

\* parseInt(str, 10) is NaN
isNaN(str) == \A i \in DOMAIN Numerals : Numerals[i] # str

\* const start = parseInt(parts[0], 10), where it is a number
startOf(range) == parseNumber(range.first)

\* const end = parts[1] ? parseInt(parts[1], 10) : fileSize - 1, where it is
\* a number
endOf(range, fileSize) ==
  IF range.last = "" THEN fileSize - 1 ELSE parseNumber(range.last)

\* start >= fileSize || end >= fileSize: a comparison with NaN is false.
outOfFile(range, fileSize) ==
  \/ ~isNaN(range.first) /\ startOf(range) >= fileSize
  \/ (range.last = "" \/ ~isNaN(range.last))
       /\ endOf(range, fileSize) >= fileSize

\* fs.createReadStream(path, {start, end}) throws for a bound that is not a
\* number and for start > end.
createReadStreamThrows(range, fileSize) ==
  \/ isNaN(range.first)
  \/ range.last # "" /\ isNaN(range.last)
  \/ startOf(range) > endOf(range, fileSize)

NotFound == [status |-> 404, opened |-> FALSE]

ServerError == [status |-> 500, opened |-> FALSE]

\* res.writeHead(206, head); file.pipe(res)
partialContent(range, fileSize) ==
  [status |-> 206,
   contentRange |-> [unit |-> "bytes", start |-> startOf(range),
                     end |-> endOf(range, fileSize), size |-> fileSize],
   acceptRanges |-> "bytes",
   contentLength |-> (endOf(range, fileSize) - startOf(range)) + 1,
   opened |-> TRUE]

\* res.writeHead(200, head); fs.createReadStream(music.path).pipe(res)
wholeFile(fileSize) ==
  [status |-> 200, contentLength |-> fileSize, opened |-> TRUE]

\* res.status(416).setHeader('Content-Range', `bytes */${fileSize}`); res.end()
notSatisfiable(fileSize) ==
  [status |-> 416,
   contentRange |-> [unit |-> "bytes", start |-> "*", size |-> fileSize],
   opened |-> FALSE]

\* ApiServer.handleStreamMusic
handleStreamMusic(id, exists, fileSize, range) ==
  IF find(musicLibrary, id, 1) = NULL \/ ~exists THEN NotFound
  ELSE IF range = NoRange THEN wholeFile(fileSize)
  ELSE IF outOfFile(range, fileSize) THEN notSatisfiable(fileSize)
  ELSE IF createReadStreamThrows(range, fileSize) THEN ServerError
  ELSE partialContent(range, fileSize)

\* The first generation's route GET /stream/:id
streamRoute(id, exists, fileSize, range) ==
  IF find(musicLibrary, id, 1) = NULL \/ ~exists THEN NotFound
  ELSE IF range = NoRange THEN wholeFile(fileSize)
  ELSE IF createReadStreamThrows(range, fileSize) THEN ServerError
  ELSE partialContent(range, fileSize)

\* One catalog entry, whose file is streamed.
InitStream ==
  /\ InitQuery
  /\ Len(musicLibrary) = 1
  /\ maxResults = defaultMaxResults

\* GET /api/music/stream/:id of the ApiServer class
StreamMusic(id, exists, fileSize, range) ==
  /\ request = NoRequest
  /\ request' = [op |-> "stream", route |-> "handleStreamMusic", id |-> id,
                 exists |-> exists, fileSize |-> fileSize, range |-> range]
  /\ response' = handleStreamMusic(id, exists, fileSize, range)
  /\ QueryFrame

\* GET /stream/:id of the first generation's router
StreamRoute(id, exists, fileSize, range) ==
  /\ request = NoRequest
  /\ request' = [op |-> "stream", route |-> "/stream/:id", id |-> id,
                 exists |-> exists, fileSize |-> fileSize, range |-> range]
  /\ response' = streamRoute(id, exists, fileSize, range)
  /\ QueryFrame

NextStream ==
  \E id \in 1..2, exists \in BOOLEAN, fileSize \in 0..MaxSize,
     range \in Ranges \cup {NoRange} :
       \/ StreamMusic(id, exists, fileSize, range)
       \/ StreamRoute(id, exists, fileSize, range)

SpecStream == InitStream /\ [][NextStream]_vars

\* ---- the first generation's guarded scanner and POST /music/scan ----------
\* _scanDirectory(dir, library) pushes the entry of the next file it finds
\* onto the newLibrary it was given: an entry's id is its file's base name.
foundNext(library) ==
  Append(library, [id |-> Len(library) + 1, path |-> Len(library) + 1])

\* The callers of scanLibrary(): initialize(), the setInterval timer and
\* the route POST /music/scan.
Callers == {"startup", "timer", "post"}

\* What the caller makes of scanLibrary()'s result. The route answers with
\* library.length, which throws for the undefined result of a skipped scan
\* and lands in its catch; initialize() and the timer drop the result.
answerScan(by, skipped, library) ==
  IF skipped
  THEN [status |-> IF by = "post" THEN 500 ELSE 0,
        success |-> FALSE,
        returned |-> "undefined",
        total |-> 0]
  ELSE [status |-> IF by = "post" THEN 200 ELSE 0,
        success |-> TRUE,
        returned |-> "library",
        total |-> Len(library)]

\* scanLibrary(), entered: if (this.isScanning) return; otherwise the flag
\* is set and the walk is awaited.
scanLibraryGuarded(s, by) ==
  IF isScanning
  THEN /\ request' = [op |-> "rescan", by |-> by, skipped |-> TRUE,
                      failed |-> FALSE]
       /\ response' = answerScan(by, TRUE, musicLibrary)
       /\ UNCHANGED <<isScanning, scans>>
  ELSE /\ isScanning' = TRUE
       /\ scans' = [scans EXCEPT ![s] = [pc |-> "walking", files |-> <<>>,
                                         by |-> by]]
       /\ UNCHANGED <<request, response>>

\* initialize(): the startup scan is called.
StartupScan ==
  /\ phase = "constructed"
  /\ phase' = "starting"
  /\ scanLibraryGuarded(1, "startup")
  /\ UNCHANGED <<musicLibrary, currentlyPlaying, playbackStatus, nextId,
                 clients, readyState, lastCall, isAlive, heartbeat,
                 upstreamVars, handles, maxResults>>

\* The timer fires, or POST /music/scan arrives: scanLibrary() is called.
RescanRequest(s, by) ==
  /\ phase = "running"
  /\ by \in {"timer", "post"}
  /\ scans[s].pc = "idle"
  /\ scanLibraryGuarded(s, by)
  /\ UNCHANGED <<phase, musicLibrary, currentlyPlaying, playbackStatus,
                 nextId, clients, readyState, lastCall, isAlive, heartbeat,
                 upstreamVars, handles, maxResults>>

\* The walk, between two of its awaits, has pushed one more entry.
RescanFound(s) ==
  /\ scans[s].pc = "walking"
  /\ Len(scans[s].files) < MaxFiles
  /\ scans' = [scans EXCEPT ![s].files = foundNext(scans[s].files)]
  /\ UNCHANGED <<phase, musicLibrary, currentlyPlaying, playbackStatus,
                 nextId, clients, readyState, lastCall, isAlive, heartbeat,
                 upstreamVars, otherVars>>

\* scanLibrary without its finally: a walk that fails leaves the flag set.
RescanDone_flagStaysOnFailure(s, ok) ==
  /\ scans[s].pc = "walking"
  /\ musicLibrary' = IF ok THEN scans[s].files ELSE musicLibrary
  /\ isScanning' = ~ok
  /\ scans' = [scans EXCEPT ![s] = IdleScan]
  /\ phase' = IF scans[s].by = "startup" THEN "running" ELSE phase
  /\ request' = [op |-> "rescan", by |-> scans[s].by, skipped |-> FALSE,
                 failed |-> ~ok]
  /\ response' = answerScan(scans[s].by, FALSE, musicLibrary')
  /\ UNCHANGED <<currentlyPlaying, playbackStatus, nextId, clients,
                 readyState, lastCall, isAlive, heartbeat, upstreamVars,
                 handles, maxResults>>

\* The awaited walk settles: on success newLibrary is installed and
\* returned, on failure the previous library is returned; finally the flag
\* is cleared. After the startup scan the servers are started.
RescanDone(s, ok) ==
  /\ scans[s].pc = "walking"
  /\ musicLibrary' = IF ok THEN scans[s].files ELSE musicLibrary
  /\ isScanning' = FALSE
  /\ scans' = [scans EXCEPT ![s] = IdleScan]
  /\ phase' = IF scans[s].by = "startup" THEN "running" ELSE phase
  /\ request' = [op |-> "rescan", by |-> scans[s].by, skipped |-> FALSE,
                 failed |-> ~ok]
  /\ response' = answerScan(scans[s].by, FALSE, musicLibrary')
  /\ UNCHANGED <<currentlyPlaying, playbackStatus, nextId, clients,
                 readyState, lastCall, isAlive, heartbeat, upstreamVars,
                 handles, maxResults>>

NextRescan ==
  \/ StartupScan
  \/ \E s \in OverlapSlots, by \in Callers : RescanRequest(s, by)
  \/ \E s \in OverlapSlots : RescanFound(s)
  \/ \E s \in OverlapSlots, ok \in BOOLEAN : RescanDone(s, ok)

SpecRescan == Init /\ [][NextRescan]_vars

\* The same scanner where every walk settles: the promise of a walk over a
\* finite tree resolves or rejects, and its continuation is then run.
SpecRescanFair ==
  /\ SpecRescan
  /\ \A s \in OverlapSlots : WF_vars(\E ok \in BOOLEAN : RescanDone(s, ok))

\* ---- WebSocketServer: the upstream connection ----------------------------
\* clearTimeout(this.reconnectTimer): the timer the handle refers to is
\* cancelled if it has not fired yet.
clearTimeout(timer) ==
  [timer EXCEPT !.pending = FALSE,
                !.live = IF timer.pending THEN timer.live - 1 ELSE timer.live]

\* this.reconnectTimer = setTimeout(..., delay): one more timer is live and
\* the handle refers to it.
setTimeout(timer, delay) ==
  [pending |-> TRUE, delay |-> delay, live |-> timer.live + 1]

\* The timer the handle refers to fires.
timerFired(timer) ==
  [timer EXCEPT !.pending = FALSE, !.live = timer.live - 1]

\* _scheduleReconnect that gives up one failure too late.
scheduleReconnect_offByOne(attempts, timer) ==
  IF attempts > maxReconnectAttempts
    THEN [attempts |-> attempts, timer |-> clearTimeout(timer)]
    ELSE [attempts |-> attempts + 1,
          timer |-> setTimeout(clearTimeout(timer),
                               reconnectInterval * (attempts + 1))]

\* _scheduleReconnect that waits the base interval every time.
scheduleReconnect_fixedDelay(attempts, timer) ==
  IF attempts >= maxReconnectAttempts
    THEN [attempts |-> attempts, timer |-> clearTimeout(timer)]
    ELSE [attempts |-> attempts + 1,
          timer |-> setTimeout(clearTimeout(timer), reconnectInterval)]

\* _scheduleReconnect: a pending timer is cleared; at the limit nothing is
\* scheduled, below it the counter is incremented and a timer is set.
scheduleReconnect(attempts, timer) ==
  IF attempts >= maxReconnectAttempts
    THEN [attempts |-> attempts, timer |-> clearTimeout(timer)]
    ELSE [attempts |-> attempts + 1,
          timer |-> setTimeout(clearTimeout(timer),
                               reconnectInterval * (attempts + 1))]

\* _connectToXiaoZhi that leaves the counter alone when it succeeds.
connectToXiaoZhi_keepsCount(outcome, attempts, timer) ==
  CASE outcome = "unconfigured" ->
         [xiaozhi |-> outcome, attempts |-> attempts, timer |-> timer]
    [] outcome = "connected" ->
         [xiaozhi |-> outcome, attempts |-> attempts, timer |-> timer]
    [] outcome = "failed" ->
         LET r == scheduleReconnect(attempts, timer) IN
         [xiaozhi |-> outcome, attempts |-> r.attempts, timer |-> r.timer]

\* _connectToXiaoZhi: without a configured URL it returns; when building the
\* URL throws the catch schedules a reconnect; otherwise the (simulated)
\* connection succeeds and the counter is reset.
connectToXiaoZhi(outcome, attempts, timer) ==
  CASE outcome = "unconfigured" ->
         [xiaozhi |-> outcome, attempts |-> attempts, timer |-> timer]
    [] outcome = "connected" ->
         [xiaozhi |-> outcome, attempts |-> 0, timer |-> timer]
    [] outcome = "failed" ->
         LET r == scheduleReconnect(attempts, timer) IN
         [xiaozhi |-> outcome, attempts |-> r.attempts, timer |-> r.timer]

Attempt(outcome, timer) ==
  LET r == connectToXiaoZhi(outcome, reconnectAttempts, timer) IN
  /\ xiaozhi' = r.xiaozhi
  /\ reconnectAttempts' = r.attempts
  /\ reconnectTimer' = r.timer
  /\ UNCHANGED <<phase, musicLibrary, currentlyPlaying, playbackStatus,
                 nextId, scans, clients, readyState, lastCall, isAlive,
                 heartbeat, otherVars>>

\* WebSocketServer.initialize, once the HTTP server listens: the first
\* connection attempt.
XiaoZhiStart(outcome) ==
  /\ phase = "running"
  /\ xiaozhi = "idle"
  /\ Attempt(outcome, reconnectTimer)

\* The reconnect timer fires: the next attempt.  The URL was configured, or
\* no timer would have been set.
ReconnectTimer(outcome) ==
  /\ reconnectTimer.pending
  /\ outcome # "unconfigured"
  /\ Attempt(outcome, timerFired(reconnectTimer))

\* _simulateXiaoZhiMessages: one second after a successful attempt the
\* xiaozhi_message is broadcast to every client.
XiaoZhiMessage ==
  /\ xiaozhi = "connected"
  /\ xiaozhi' = "announced"
  /\ lastCall' = [via |-> "xiaozhi", client |-> NoClient,
                  op |-> "xiaozhi_message", id |-> NoId,
                  from |-> playbackStatus, error |-> ErrNone, code |-> 0,
                  sent |-> broadcast([type |-> "xiaozhi_message"], NoClient)]
  /\ UNCHANGED <<phase, musicLibrary, currentlyPlaying, playbackStatus,
                 nextId, scans, clients, readyState, isAlive, heartbeat,
                 reconnectAttempts, reconnectTimer, otherVars>>

\* What ws.send does with a socket whose readyState is OPEN: the frame is
\* written, or queued behind a peer that reads slowly, or the write fails
\* and the failure is reported later through the socket's events. In each
\* case send returns to its caller without throwing and without waiting.
SocketConditions == {"ok", "slow", "broken"}

wsSend(condition, data) ==
  [handed |-> <<data>>, threw |-> FALSE,
   outcome |-> CASE condition = "ok" -> "written"
                 [] condition = "slow" -> "queued"
                 [] condition = "broken" -> "error event"]

\* broadcast whose loop ends at the first send that does not get through.
RECURSIVE broadcastFrom_untilTrouble(_, _, _, _)
broadcastFrom_untilTrouble(d, data, excludeClientId, condition) ==
  IF d > MaxClients THEN NoSends
  ELSE IF d \in clients /\ d # excludeClientId /\ readyState[d] = "OPEN"
    THEN IF wsSend(condition[d], data).outcome # "written"
           THEN [NoSends EXCEPT ![d] = wsSend(condition[d], data).handed]
           ELSE [broadcastFrom_untilTrouble(d + 1, data, excludeClientId,
                                            condition)
                   EXCEPT ![d] = wsSend(condition[d], data).handed]
  ELSE IF d \in clients /\ d # excludeClientId
    THEN NoSends
  ELSE broadcastFrom_untilTrouble(d + 1, data, excludeClientId, condition)

\* broadcast as the loop it is: this.clients.forEach from client d on, each
\* client but the excluded one passed to _sendMessage, which hands the
\* message to ws.send when the socket is OPEN; the loop goes on to the next
\* client unless a send throws.
RECURSIVE broadcastFrom(_, _, _, _)
broadcastFrom(d, data, excludeClientId, condition) ==
  IF d > MaxClients THEN NoSends
  ELSE IF d \in clients /\ d # excludeClientId /\ readyState[d] = "OPEN"
    THEN IF wsSend(condition[d], data).threw
           THEN NoSends
           ELSE [broadcastFrom(d + 1, data, excludeClientId, condition)
                   EXCEPT ![d] = wsSend(condition[d], data).handed]
  ELSE broadcastFrom(d + 1, data, excludeClientId, condition)

\* _simulateXiaoZhiMessages with the condition of every client's socket at
\* the time of the broadcast.
XiaoZhiAnnounce(condition) ==
  /\ xiaozhi = "connected"
  /\ xiaozhi' = "announced"
  /\ request' = [op |-> "broadcast", condition |-> condition]
  /\ lastCall' = [via |-> "xiaozhi", client |-> NoClient,
                  op |-> "xiaozhi_message", id |-> NoId,
                  from |-> playbackStatus, error |-> ErrNone, code |-> 0,
                  sent |-> broadcastFrom(1, [type |-> "xiaozhi_message"],
                                         NoClient, condition)]
  /\ UNCHANGED <<phase, musicLibrary, currentlyPlaying, playbackStatus,
                 nextId, scans, clients, readyState, isAlive, heartbeat,
                 reconnectAttempts, reconnectTimer, handles, maxResults, response,
                 isScanning>>

Outcomes == {"unconfigured", "connected", "failed"}

\* The hub's upstream side: startup, client connections and the attempts to
\* reach the upstream assistant.
NextUpstream ==
  \/ Initialize
  \/ \E s \in ScanSlots : ScanListed(s)
  \/ \E s \in ScanSlots : ScanExtract(s)
  \/ \E s \in ScanSlots : ScanDone(s)
  \/ \E c \in ClientIds : Connect(c)
  \/ \E c \in ClientIds : Closing(c)
  \/ \E c \in ClientIds : Close(c)
  \/ \E outcome \in Outcomes : XiaoZhiStart(outcome)
  \/ \E outcome \in Outcomes : ReconnectTimer(outcome)
  \/ XiaoZhiMessage

SpecUpstream == Init /\ [][NextUpstream]_vars

\* The hub's broadcast to clients whose sockets are in any condition.
NextBroadcast ==
  \/ Initialize
  \/ \E s \in ScanSlots : ScanListed(s)
  \/ \E s \in ScanSlots : ScanExtract(s)
  \/ \E s \in ScanSlots : ScanDone(s)
  \/ \E c \in ClientIds : Connect(c)
  \/ \E c \in ClientIds : Closing(c)
  \/ \E c \in ClientIds : Close(c)
  \/ \E outcome \in Outcomes : XiaoZhiStart(outcome)
  \/ \E outcome \in Outcomes : ReconnectTimer(outcome)
  \/ \E condition \in [ClientIds -> SocketConditions] :
        XiaoZhiAnnounce(condition)

SpecBroadcast == Init /\ [][NextBroadcast]_vars

\* ---- App: stopping --------------------------------------------------------
\* MusicManager.cleanup() that leaves the scan interval set.
cleanup_keepsInterval(h) == h

\* MusicManager.cleanup(): the scan interval is cleared.
cleanup(h) == [h EXCEPT !.scanInterval = FALSE]

\* WebSocketServer.stop(), its handles: the heartbeat interval is cleared
\* and the WebSocket.Server is closed.
stopHub(h) == [h EXCEPT !.heartbeatInterval = FALSE, !.wss = "closed"]

\* App.stop(), from the SIGINT or uncaughtException handler that start()
\* installs as its last step: the hub is stopped (intervals and reconnect
\* timer cleared, every client closed, the registry cleared, the server
\* closed), the HTTP server is closed and the manager is cleaned up.
AppStop ==
  /\ phase = "running"
  /\ xiaozhi # "idle"
  /\ ~handles.stopped
  /\ handles' = [cleanup(stopHub(handles)) EXCEPT !.stopped = TRUE]
  /\ reconnectTimer' = clearTimeout(reconnectTimer)
  /\ clients' = {}
  /\ readyState' = [c \in ClientIds |->
                      IF c \in clients /\ readyState[c] = "OPEN"
                      THEN "CLOSING" ELSE readyState[c]]
  /\ isAlive' = [c \in ClientIds |-> FALSE]
  /\ UNCHANGED <<phase, musicLibrary, currentlyPlaying, playbackStatus,
                 nextId, scans, lastCall, heartbeat, reconnectAttempts,
                 xiaozhi, maxResults, request, response, isScanning>>

\* The WebSocket.Server accepts a connection while it is open.
Accept(c) == handles.wss = "open" /\ Connect(c)

\* The heartbeat interval fires while it is set.
HeartbeatTick == handles.heartbeatInterval /\ Heartbeat

\* The scan interval fires while it is set.
PeriodicScan(s) == handles.scanInterval /\ ScanRequest(s)

\* The application from construction to after its stop.
NextStop ==
  \/ Initialize
  \/ \E s \in ScanSlots : PeriodicScan(s)
  \/ \E s \in ScanSlots : ScanListed(s)
  \/ \E s \in ScanSlots : ScanExtract(s)
  \/ \E s \in ScanSlots : ScanDone(s)
  \/ \E c \in FrameClients : Accept(c)
  \/ \E c \in FrameClients : Close(c)
  \/ \E c \in FrameClients : Pong(c)
  \/ HeartbeatTick
  \/ \E outcome \in Outcomes : XiaoZhiStart(outcome)
  \/ \E outcome \in Outcomes : ReconnectTimer(outcome)
  \/ XiaoZhiMessage
  \/ AppStop

SpecStop == Init /\ [][NextStop]_vars

\* The realtime hub on its own: startup, then connections, every message
\* type, pongs and heartbeat ticks, with the connection handler's sends
\* recorded in lastCall.
NextHub ==
  \/ Initialize
  \/ \E s \in ScanSlots : ScanListed(s)
  \/ \E s \in ScanSlots : ScanExtract(s)
  \/ \E s \in ScanSlots : ScanDone(s)
  \/ \E c \in ClientIds : Connection(c)
  \/ \E c \in ClientIds : Closing(c)
  \/ \E c \in ClientIds : Close(c)
  \/ \E c \in ClientIds : Pong(c)
  \/ Heartbeat
  \/ \E c \in ClientIds, type \in PlaybackOps, id \in Ids \cup {NoId} :
       WsPlayback(c, type, id)
  \/ \E c \in ClientIds, type \in OtherTypes : WsMessage(c, type)

SpecHub == Init /\ [][NextHub]_vars

\* ---- everything that reads the session -------------------------------------
\* The catalog a scan installs in the runs below: MaxLib entries with tags,
\* their ids fresh from first on.
Shelf(first) ==
  [i \in 1..MaxLib |->
     [id |-> first + i - 1, path |-> i, title |-> "T",
      artist |-> IF i = 1 THEN "Ab" ELSE "Cd", album |-> "L",
      genre |-> <<"G">>, duration |-> 0, format |-> "mp3"]]

\* Array.from(set).sort() on the tags of the catalog: the texts of the set
\* in their order.
TextsInOrder == <<"Ab", "Cd", "G", "L", "T">>

sorted(set) == SelectSeq(TextsInOrder, LAMBDA text : text \in set)

\* getArtists(), getAlbums(artistFilter), getGenres()
getArtists == sorted({musicLibrary[i].artist : i \in DOMAIN musicLibrary})

getAlbums(artistFilter) ==
  sorted({musicLibrary[i].album :
            i \in {j \in DOMAIN musicLibrary :
                     artistFilter = "" \/ musicLibrary[j].artist = artistFilter}})

getGenres ==
  sorted(UNION {{musicLibrary[i].genre[g] : g \in DOMAIN musicLibrary[i].genre} :
                  i \in DOMAIN musicLibrary})

\* getPlaybackStatus() that reports a stopped session by stopping it.
getPlaybackStatus_stops == [current |-> NULL, status |-> "stopped"]

\* getPlaybackStatus()
getPlaybackStatus == [current |-> currentlyPlaying, status |-> playbackStatus]

\* The read handlers of the HTTP API: the session they leave behind, the
\* status they answer with and the body.
answered(code, body) ==
  [error |-> ErrNone, current |-> currentlyPlaying, status |-> playbackStatus,
   code |-> code, body |-> body]

handlePlaybackStatus ==
  LET status == getPlaybackStatus IN
  [error |-> ErrNone, current |-> status.current, status |-> status.status,
   code |-> 200,
   body |-> [success |-> TRUE, current |-> status.current,
             status |-> status.status]]

handleMusicDetails(id) ==
  LET music == getMusicById(musicLibrary, id) IN
  IF music # NULL THEN answered(200, [success |-> TRUE, music |-> music])
  ELSE answered(404, [success |-> FALSE, message |-> ErrNotFound])

handleGetArtists ==
  answered(200, [success |-> TRUE, artists |-> getArtists,
                 total |-> Len(getArtists)])

handleGetAlbums(artist) ==
  answered(200, [success |-> TRUE, albums |-> getAlbums(artist),
                 total |-> Len(getAlbums(artist)),
                 artist |-> IF artist = "" THEN "all" ELSE artist])

handleGetGenres ==
  answered(200, [success |-> TRUE, genres |-> getGenres,
                 total |-> Len(getGenres)])

searchAnswer(query) ==
  LET results == searchMusic(IF "query" \in DOMAIN query THEN query.query
                             ELSE "", extractFilters(query))
  IN answered(200, [success |-> TRUE, results |-> results,
                    total |-> Len(results)])

listAnswer(query) ==
  answered(200, getMusicList(extractFilters(query), extractPagination(query)))

ReadOps ==
  {"status", "detail", "artists", "albums", "genres", "search", "list"}

handleRead(op, id, text) ==
  CASE op = "status" -> handlePlaybackStatus
    [] op = "detail" -> handleMusicDetails(id)
    [] op = "artists" -> handleGetArtists
    [] op = "albums" -> handleGetAlbums(text)
    [] op = "genres" -> handleGetGenres
    [] op = "search" -> searchAnswer(IF text = "" THEN <<>> ELSE [query |-> text])
    [] op = "list" -> listAnswer(IF text = "" THEN <<>> ELSE [artist |-> text])

\* _handleSearchCommand: the results go to the requester alone.
handleSearchCommand(clientId, query) ==
  LET results == searchMusic(query, <<>>) IN
  [error |-> ErrNone, current |-> currentlyPlaying, status |-> playbackStatus,
   music |-> NULL,
   sent |-> sendMessageToClient(clientId,
              [type |-> "search_results", success |-> TRUE, query |-> query,
               results |-> results, total |-> Len(results)])]

\* The application is up: the startup scan has installed a catalog.
InitFrame ==
  /\ phase = "running"
  /\ musicLibrary = Shelf(1)
  /\ maxResults = defaultMaxResults
  /\ currentlyPlaying = NULL
  /\ playbackStatus = "stopped"
  /\ nextId = MaxLib + 1
  /\ scans = [s \in ScanSlots \cup OverlapSlots |-> IdleScan]
  /\ clients = {}
  /\ readyState = [c \in ClientIds |-> "CLOSED"]
  /\ lastCall = NoCall
  /\ isAlive = [c \in ClientIds |-> FALSE]
  /\ heartbeat = NoHeartbeat
  /\ reconnectAttempts = 0
  /\ reconnectTimer = NoTimer
  /\ xiaozhi = "idle"
  /\ request = NoRequest
  /\ response = NoResponse
  /\ isScanning = FALSE
  /\ handles = Serving

\* GET /playback/status, /music/:id, /artists, /albums, /genres,
\* /music/search and /music/list
HttpRead(op, id, text) ==
  /\ phase = "running"
  /\ op = "detail" <=> id # NoId
  /\ op \notin {"albums", "search", "list"} => text = ""
  /\ LET r == handleRead(op, id, text) IN
     /\ currentlyPlaying' = r.current
     /\ playbackStatus' = r.status
     /\ lastCall' = [via |-> "http", client |-> NoClient, op |-> op,
                     id |-> id, from |-> playbackStatus, error |-> r.error,
                     code |-> r.code, sent |-> NoSends, body |-> r.body]
  /\ UNCHANGED <<phase, musicLibrary, nextId, scans, clients, readyState,
                 isAlive, heartbeat, upstreamVars, otherVars>>

\* ws 'message' of type search from a registered, open client.
WsSearch(c, query) ==
  /\ phase = "running"
  /\ c \in clients
  /\ readyState[c] = "OPEN"
  /\ LET r == handleSearchCommand(c, query) IN
     Call("ws", c, "search", NoId, r, 0, r.sent)

\* A scan from start to end, by the timer or POST /music/scan: the library
\* is emptied, and filled again unless the walk rejects.
Rescan(ok) ==
  /\ phase = "running"
  /\ nextId <= MaxLib + 1
  /\ musicLibrary' = IF ok THEN Shelf(nextId) ELSE <<>>
  /\ nextId' = IF ok THEN nextId + MaxLib ELSE nextId
  /\ UNCHANGED <<phase, currentlyPlaying, playbackStatus, scans, clients,
                 readyState, lastCall, isAlive, heartbeat, upstreamVars,
                 otherVars>>

\* The running application with every request that reads the session next
\* to those that write it.
NextFrame ==
  \/ \E ok \in BOOLEAN : Rescan(ok)
  \/ \E c \in FrameClients : Connect(c)
  \/ \E c \in FrameClients : Close(c)
  \/ Heartbeat
  \/ \E op \in PlaybackOps, id \in Ids \cup {NoId} : HttpPlayback(op, id)
  \/ \E c \in FrameClients, type \in PlaybackOps, id \in Ids \cup {NoId} :
       WsPlayback(c, type, id)
  \/ \E c \in FrameClients, type \in {"ping", "status"} : WsMessage(c, type)
  \/ \E c \in FrameClients : WsSearch(c, "B")
  \/ \E op \in ReadOps, id \in Ids \cup {NoId}, text \in {"", "Ab"} :
       HttpRead(op, id, text)

SpecFrame == InitFrame /\ [][NextFrame]_vars

\* ---- properties ------------------------------------------------------------
\* A playback request is handled in this step: HttpPlayback and WsPlayback
\* leave the variables below alone and every other action changes one of them.
Called ==
  UNCHANGED <<phase, musicLibrary, nextId, scans, clients, readyState>>

Succeeded(call) == call.op \in PlaybackOps /\ call.error = ErrNone

\* C1: in every reachable state the current entry is absent if and only if
\* the status is stopped.
C1_AbsentIffStopped ==
  (currentlyPlaying = NULL) <=> (playbackStatus = "stopped")

\* A successful stop has brought a loaded session back to {stopped, none}.
C1_Witness ==
  /\ lastCall.op = "stop"
  /\ lastCall.error = ErrNone
  /\ lastCall.from = "paused"
  /\ currentlyPlaying = NULL

\* C2: in every reachable state the current entry is absent or is an entry
\* of the installed library (its id resolves through getMusicById).
C2_CurrentInLibrary ==
  \/ currentlyPlaying = NULL
  \/ getMusicById(musicLibrary, currentlyPlaying.id) = currentlyPlaying

\* C3: play(id) with an id that does not resolve fails with the not-found
\* error (404 over HTTP) and leaves status and current entry as they were.
C3_PlayUnknownId ==
  [][(/\ Called
      /\ lastCall'.op = "play"
      /\ lastCall'.id # NoId
      /\ getMusicById(musicLibrary, lastCall'.id) = NULL)
     => /\ lastCall'.error = ErrNotFound
        /\ lastCall'.via = "http" => lastCall'.code = 404
        /\ playbackStatus' = playbackStatus
        /\ currentlyPlaying' = currentlyPlaying]_vars

\* A play of an unknown id was refused while an entry was paused.
C3_Witness ==
  /\ lastCall.op = "play"
  /\ lastCall.error = ErrNotFound
  /\ lastCall.from = "paused"
  /\ playbackStatus = "paused"
  /\ currentlyPlaying # NULL

\* C4: play(id) with an id that resolves ends with status playing and the
\* current entry equal to the resolved entry, whatever the state before.
C4_PlayKnownId ==
  [][(/\ Called
      /\ lastCall'.op = "play"
      /\ getMusicById(musicLibrary, lastCall'.id) # NULL)
     => /\ lastCall'.error = ErrNone
        /\ playbackStatus' = "playing"
        /\ currentlyPlaying' = getMusicById(musicLibrary, lastCall'.id)]_vars

\* An entry was played while the session was paused, and is now playing.
C4_Witness ==
  /\ lastCall.op = "play"
  /\ lastCall.error = ErrNone
  /\ lastCall.from = "paused"
  /\ currentlyPlaying.id = lastCall.id
  /\ playbackStatus = "playing"

\* C5: pause() fails with the invalid-state error and changes nothing when
\* stopped; otherwise it succeeds with status paused and the same entry
\* (from paused the state is unchanged).
C5_Pause ==
  [][(Called /\ lastCall'.op = "pause")
     => IF playbackStatus = "stopped"
          THEN /\ lastCall'.error = ErrNoCurrent
               /\ lastCall'.via = "http" => lastCall'.code = 400
               /\ playbackStatus' = playbackStatus
               /\ currentlyPlaying' = currentlyPlaying
          ELSE /\ lastCall'.error = ErrNone
               /\ playbackStatus' = "paused"
               /\ currentlyPlaying' = currentlyPlaying]_vars

\* A pause succeeded on an already paused session.
C5_Witness ==
  /\ lastCall.op = "pause"
  /\ lastCall.error = ErrNone
  /\ lastCall.from = "paused"
  /\ playbackStatus = "paused"

\* C6: resume() fails with the invalid-state error and changes nothing when
\* stopped; otherwise it succeeds with status playing and the same entry
\* (from playing the state is unchanged).
C6_Resume ==
  [][(Called /\ lastCall'.op = "resume")
     => IF playbackStatus = "stopped"
          THEN /\ lastCall'.error = ErrNoCurrent
               /\ lastCall'.via = "http" => lastCall'.code = 400
               /\ playbackStatus' = playbackStatus
               /\ currentlyPlaying' = currentlyPlaying
          ELSE /\ lastCall'.error = ErrNone
               /\ playbackStatus' = "playing"
               /\ currentlyPlaying' = currentlyPlaying]_vars

\* A resume succeeded on a session that was already playing.
C6_Witness ==
  /\ lastCall.op = "resume"
  /\ lastCall.error = ErrNone
  /\ lastCall.from = "playing"
  /\ playbackStatus = "playing"

\* C7: stop() fails with the invalid-state error and changes nothing when
\* stopped; otherwise it clears the current entry and sets status stopped;
\* a stop that directly follows a successful stop fails.
C7_Stop ==
  [][(Called /\ lastCall'.op = "stop")
     => /\ IF playbackStatus = "stopped"
             THEN /\ lastCall'.error = ErrNoCurrent
                  /\ lastCall'.via = "http" => lastCall'.code = 400
                  /\ playbackStatus' = playbackStatus
                  /\ currentlyPlaying' = currentlyPlaying
             ELSE /\ lastCall'.error = ErrNone
                  /\ playbackStatus' = "stopped"
                  /\ currentlyPlaying' = NULL
        /\ (lastCall.op = "stop" /\ lastCall.error = ErrNone)
             => lastCall'.error = ErrNoCurrent]_vars

\* A stop was refused on a session that was already stopped.
C7_Witness ==
  /\ lastCall.op = "stop"
  /\ lastCall.error = ErrNoCurrent
  /\ lastCall.from = "stopped"
  /\ playbackStatus = "stopped"
  /\ musicLibrary # <<>>

\* C8: pause() from playing entry e directly followed by resume() is back at
\* status playing with current entry e: the pause leaves (paused, e), no
\* step other than a playback request touches the session, and the resume
\* that follows the pause leaves (playing, e).
C8_PauseResume ==
  [][/\ (Called /\ lastCall'.op = "pause" /\ playbackStatus = "playing")
        => /\ lastCall'.error = ErrNone
           /\ playbackStatus' = "paused"
           /\ currentlyPlaying' = currentlyPlaying
     /\ ~Called
        => /\ playbackStatus' = playbackStatus
           /\ currentlyPlaying' = currentlyPlaying
     /\ (/\ Called
         /\ lastCall'.op = "resume"
         /\ lastCall.op = "pause"
         /\ lastCall.error = ErrNone)
        => /\ lastCall'.error = ErrNone
           /\ playbackStatus' = "playing"
           /\ currentlyPlaying' = currentlyPlaying
           /\ currentlyPlaying' # NULL]_vars

\* A resume ran on the paused session a pause had left.
C8_Witness ==
  /\ lastCall.op = "resume"
  /\ lastCall.error = ErrNone
  /\ lastCall.from = "paused"
  /\ playbackStatus = "playing"
  /\ currentlyPlaying # NULL

\* The broadcast of the session state that results from a transition.
ResultingUpdate == update(currentlyPlaying', playbackStatus')

Received(d, data) ==
  \E i \in 1..Len(lastCall'.sent[d]) : lastCall'.sent[d][i] = data

\* C9: every successful playback transition, over HTTP or realtime, is
\* followed by a broadcast of the resulting state to the connected realtime
\* clients (the requester of a realtime command has its reply instead).
C9_NoSilentTransition ==
  [][(Called /\ Succeeded(lastCall'))
     => \A d \in OpenClients \ {lastCall'.client} :
          Received(d, ResultingUpdate)]_vars

\* C10: after a successful realtime playback command from client c every
\* other registered open client is sent exactly one playback_update with
\* the resulting state, and c is sent exactly one message, its direct reply.
C10_BroadcastToOthers ==
  [][(Called /\ lastCall'.via = "ws" /\ Succeeded(lastCall'))
     => /\ \A d \in OpenClients \ {lastCall'.client} :
             lastCall'.sent[d] = <<ResultingUpdate>>
        /\ Len(lastCall'.sent[lastCall'.client]) = 1
        /\ lastCall'.sent[lastCall'.client][1].type = "playback_update"
        /\ lastCall'.sent[lastCall'.client][1].success]_vars

\* A realtime command succeeded while another client was open and was sent
\* the update.
C10_Witness ==
  /\ lastCall.via = "ws"
  /\ Succeeded(lastCall)
  /\ Len(lastCall.sent[lastCall.client]) = 1
  /\ \E d \in ClientIds \ {lastCall.client} : Len(lastCall.sent[d]) = 1

\* ---- properties of the realtime hub (SpecHub) -------------------------------
\* C11: the step that registers a client sends that client, and nobody else,
\* the welcome followed by a playback_status carrying the session's current
\* entry and status as they are at that moment, and leaves the session alone;
\* a message is handled only for a client that was registered before, so
\* never ahead of these two sends.
C11_ConnectSnapshot ==
  [][/\ \A c \in ClientIds :
          (c \notin clients /\ c \in clients') =>
            /\ lastCall'.op = "connect"
            /\ lastCall'.client = c
            /\ lastCall'.sent[c] =
                 <<welcome(c),
                   [type |-> "playback_status", current |-> currentlyPlaying,
                    status |-> playbackStatus]>>
            /\ \A d \in ClientIds \ {c} : lastCall'.sent[d] = <<>>
            /\ UNCHANGED <<currentlyPlaying, playbackStatus>>
     /\ (lastCall' # lastCall /\ lastCall'.op # "connect") =>
          lastCall'.client \in clients]_vars

C11_Witness ==
  /\ lastCall.op = "connect"
  /\ playbackStatus = "paused"
  /\ lastCall.sent[lastCall.client][2].current = currentlyPlaying
  /\ currentlyPlaying # NULL

\* C12: a registered client is not alive exactly when the previous tick
\* pinged it and no pong came since; the next tick removes every such client
\* from the client set (and terminates it), and keeps and pings the others.
\* No message of any later handler is sent to a client outside the set.
C12_HeartbeatRemoval ==
  [][/\ heartbeat'.tick # heartbeat.tick =>
          \A c \in clients :
             /\ ~isAlive[c] =>
                  c \notin clients' /\ c \in heartbeat'.terminated
                  /\ readyState'[c] # "OPEN"
             /\ isAlive[c] => c \in clients' /\ ~isAlive'[c]
     /\ lastCall' # lastCall =>
          \A d \in ClientIds \ clients' : lastCall'.sent[d] = <<>>]_vars

C12_Witness ==
  /\ heartbeat.terminated # {}
  /\ heartbeat.terminated \cap clients = {}
  /\ Succeeded(lastCall)
  /\ lastCall.client \in clients
  /\ \A d \in heartbeat.terminated : lastCall.sent[d] = <<>>

\* C13: a message of a type the hub has no case for, or one that cannot be
\* parsed, is answered with one error message to its sender and nothing to
\* anybody else; the session, the catalog and the client registry stay as
\* they were.
C13_BadMessage ==
  [][(lastCall' # lastCall /\ lastCall'.op \in {"bogus", "malformed"}) =>
       /\ lastCall'.sent[lastCall'.client] =
            <<[type |-> "error", success |-> FALSE,
               message |-> IF lastCall'.op = "bogus" THEN ErrUnknownType
                           ELSE ErrFormat,
               music |-> NULL, status |-> "none"]>>
       /\ \A d \in ClientIds \ {lastCall'.client} : lastCall'.sent[d] = <<>>
       /\ UNCHANGED <<currentlyPlaying, playbackStatus, musicLibrary,
                      clients, readyState, isAlive>>]_vars

C13_Witness ==
  /\ lastCall.op \in {"bogus", "malformed"}
  /\ lastCall.error \in {ErrUnknownType, ErrFormat}
  /\ playbackStatus = "playing"
  /\ clients = ClientIds
  /\ lastCall.sent[lastCall.client] # <<>>

\* ---- properties of the upstream connection (SpecUpstream) -------------------
\* C14: the retry counter never exceeds maxReconnectAttempts; a reconnect is
\* scheduled only by a step that raises the counter by one from below the
\* limit; and any step taken with the counter at the limit leaves no
\* reconnect pending, so after the last failed retry none is ever scheduled.
C14_ReconnectLimit ==
  [][/\ reconnectAttempts' <= maxReconnectAttempts
     /\ (upstreamVars' # upstreamVars /\ reconnectTimer'.pending) =>
          /\ reconnectAttempts < maxReconnectAttempts
          /\ reconnectAttempts' = reconnectAttempts + 1
     /\ (upstreamVars' # upstreamVars
         /\ reconnectAttempts = maxReconnectAttempts) =>
          ~reconnectTimer'.pending
     /\ (reconnectAttempts = maxReconnectAttempts /\ xiaozhi = "failed"
         /\ ~reconnectTimer.pending) =>
          UNCHANGED upstreamVars]_vars

C14_Witness ==
  /\ reconnectAttempts = maxReconnectAttempts
  /\ xiaozhi = "failed"
  /\ ~reconnectTimer.pending

\* C15: whenever a reconnect is scheduled, its delay is reconnectInterval
\* times the number of the attempt it schedules, and it is longer than the
\* delay of the reconnect scheduled before it.
C15_ReconnectDelay ==
  [][(upstreamVars' # upstreamVars /\ reconnectTimer'.pending) =>
       /\ reconnectTimer'.delay = reconnectInterval * reconnectAttempts'
       /\ reconnectTimer'.delay > reconnectTimer.delay]_vars

C15_Witness ==
  /\ reconnectTimer.pending
  /\ reconnectAttempts = 3
  /\ reconnectTimer.delay = 3 * reconnectInterval

\* ---- properties of the scanner (SpecScan) -----------------------------------
InFlight == {s \in DOMAIN scans : scans[s].pc # "idle"}

\* A scanLibrary() call returns in this step.
ScanCompletes == \E s \in DOMAIN scans : scans[s].pc # "idle" /\ scans'[s].pc = "idle"

Paths(lib) == [i \in 1..Len(lib) |-> lib[i].path]

\* C16: at no moment are two scanLibrary() calls in flight.
C16_OneScanInFlight == Cardinality(InFlight) <= 1

\* C17: once the service accepts requests, the catalog readers see holds
\* exactly the files of the library directory, one entry each, as a finished
\* scan leaves it; never only part of them.
C17_CompleteSnapshot ==
  phase = "running" => Paths(musicLibrary) = scanDirectory(MaxFiles)

\* C18: a step that starts a rescan, or is taken while one is in flight and
\* does not complete it, leaves every entry of the catalog retrievable by
\* its id as before.
C18_PreScanQueryable ==
  [][(phase = "running" /\ InFlight' # {} /\ ~ScanCompletes) =>
       \A id \in 1..MaxScanId :
          getMusicById(musicLibrary, id) # NULL =>
            getMusicById(musicLibrary', id) = getMusicById(musicLibrary, id)]_vars

\* C19: the catalog a scan returns on completion holds no two entries with
\* the same file path.
C19_UniquePaths ==
  [][ScanCompletes =>
       \A i, j \in 1..Len(musicLibrary') :
          musicLibrary'[i].path = musicLibrary'[j].path => i = j]_vars

\* C20: the catalog a scan returns on completion has one entry for each of
\* the N supported files of the directory tree.
C20_EveryFileOnce == [][ScanCompletes => Len(musicLibrary') = MaxFiles]_vars

\* ---- properties of the walk and the extraction (SpecExtract) ----------------
Attributes ==
  {"id", "title", "artist", "album", "genre", "duration", "year",
   "trackNumber", "discNumber", "path", "filename", "format", "coverArt",
   "bitrate", "sampleRate", "channels", "addedAt", "modifiedAt"}

\* C21: every entry of the catalog carries every catalog attribute.
C21_AllAttributes ==
  \A i \in 1..Len(musicLibrary) :
     request.op = "scan" => Attributes \subseteq DOMAIN musicLibrary[i]

\* The positions of the files of a tree (top level and inside directories)
\* and the file at a position.
FilesOf(tree) ==
  {<<i>> : i \in {k \in 1..Len(tree) : tree[k].kind = "file"}}
  \cup UNION {{<<i, j>> : j \in 1..Len(tree[i].items)} :
               i \in {k \in 1..Len(tree) : tree[k].kind = "dir"}}

FileAt(tree, at) ==
  IF Len(at) = 1 THEN tree[at[1]] ELSE tree[at[1]].items[at[2]]

C23_FormatSupported ==
  \A i \in 1..Len(musicLibrary) :
     request.op = "scan" => musicLibrary[i].format \in supportedFormats

\* ---- properties of the queries (SpecQuery) ----------------------------------
\* The entry satisfies every filter that was supplied: artist by substring,
\* format by name, and each duration bound that was given, 0 included.
Satisfies(music, filters) ==
  /\ given(filters, "artist") =>
       includes(toLowerCase(music.artist), toLowerCase(filters.artist))
  /\ given(filters, "format") =>
       toLowerCase(music.format) = toLowerCase(filters.format)
  /\ given(filters, "minDuration") => music.duration >= filters.minDuration
  /\ given(filters, "maxDuration") => music.duration <= filters.maxDuration

\* The entries of the snapshot that satisfy the filters, in snapshot order.
FilteredSet(filters) ==
  LET keep(music) == Satisfies(music, filters)
  IN SelectSeq(musicLibrary, keep)

\* No duration bound of the filters is 0.
NoZeroBound(filters) ==
  \A k \in DOMAIN filters \cap {"minDuration", "maxDuration"} : filters[k] # 0

\* The smaller of two numbers.
Min(a, b) == IF a < b THEN a ELSE b

\* C24, as the claim states it: search("") without filters returns every
\* entry of the snapshot, in snapshot order, whatever the snapshot's size.
C24_AllEntries ==
  (request.op = "search" /\ request.text = "" /\ DOMAIN request.filters = {})
    => response.results = musicLibrary

\* C24, amended: search("") without filters returns the snapshot in
\* snapshot order, cut to its first maxResults entries when a maximum
\* result count is configured and the snapshot is larger than it.
C24_CappedPrefix ==
  (request.op = "search" /\ request.text = "" /\ DOMAIN request.filters = {})
    => response.results =
         SubSeq(musicLibrary, 1,
                IF maxResults # 0 THEN Min(Len(musicLibrary), maxResults)
                ELSE Len(musicLibrary))

\* C24: search("") without filters was answered for a snapshot larger than
\* the configured maximum, with the first maxResults entries.
C24_Witness ==
  /\ request.op = "search" /\ request.text = ""
  /\ DOMAIN request.filters = {}
  /\ maxResults # 0
  /\ Len(musicLibrary) > maxResults
  /\ Len(response.results) = maxResults

\* C25: the maximum result count cuts the output of search and filter to a
\* prefix of at most maxResults entries and never affects list, whose total,
\* totalPages and page contents are computed over the full filtered set.
C25_ListIgnoresCap ==
  /\ (request.op = "search" /\ request.text = "" /\ maxResults # 0
        /\ NoZeroBound(request.filters))
       => /\ Len(response.results) <= maxResults
          /\ response.results =
               SubSeq(FilteredSet(request.filters), 1, Len(response.results))
  /\ (request.op = "list" /\ NoZeroBound(request.filters))
       => LET full == FilteredSet(request.filters)
              start == (response.page - 1) * response.pageSize
          IN /\ response.total = Len(full)
             /\ response.totalPages = ceilDiv(Len(full), response.pageSize)
             /\ response.items
                  = slice(full, start, start + response.pageSize)

\* C26: list with a page beyond the last one answers without error, with no
\* items, total = the size of the filtered set and totalPages =
\* ceil(total / pageSize); pageSize is 50 and page is 1 when not given.
C26_PageBeyondLast ==
  (request.op = "list" /\ NoZeroBound(request.filters))
    => LET full == FilteredSet(request.filters)
       IN /\ response.status = 200
          /\ "page" \notin request.given => response.page = defaultPage
          /\ "pageSize" \notin request.given
               => response.pageSize = defaultPageSize
          /\ (response.page - 1) * response.pageSize >= Len(full)
               => /\ response.items = <<>>
                  /\ response.total = Len(full)
                  /\ response.totalPages
                       = ceilDiv(response.total, response.pageSize)

RangeRequested ==
  /\ request.op = "stream"
  /\ find(musicLibrary, request.id, 1) # NULL
  /\ request.exists
  /\ request.range # NoRange

\* The request's range is start-end or start-, with the bounds numbers.
WellFormed ==
  /\ ~isNaN(request.range.first)
  /\ request.range.last = "" \/ ~isNaN(request.range.last)

\* C28: a range request for an existing entry whose file has size S is
\* answered 206 exactly when 0 <= start <= end < S, end being S - 1 when
\* omitted, and then with Content-Length = end - start + 1 and
\* Content-Range = bytes start-end/S.
C28_PartialContent ==
  RangeRequested =>
    LET S == request.fileSize
        start == startOf(request.range)
        end == endOf(request.range, S)
    IN /\ response.status = 206
            <=> (WellFormed /\ 0 <= start /\ start <= end /\ end < S)
       /\ response.status = 206
            => /\ response.contentLength = end - start + 1
               /\ response.contentRange
                    = [unit |-> "bytes", start |-> start, end |-> end,
                       size |-> S]

\* C29: a range request for an existing entry whose file has size S, with
\* start >= S or end >= S, is answered 416 with Content-Range = bytes */S and
\* no body, and no byte source is opened on the file.
C29_NotSatisfiable ==
  (RangeRequested /\ WellFormed
     /\ (\/ startOf(request.range) >= request.fileSize
         \/ endOf(request.range, request.fileSize) >= request.fileSize))
    => /\ response.status = 416
       /\ response.contentRange
            = [unit |-> "bytes", start |-> "*", size |-> request.fileSize]
       /\ ~response.opened

\* ---- properties of the guarded scanner (SpecRescan) -------------------------
\* C30: every rescan request, at startup, from the timer or on demand, one
\* that arrives while another scan is in flight included, completes by
\* returning the size of the installed snapshot, and the on-demand endpoint
\* reports that size as a success.
C30_RescanReturnsSize ==
  request.op = "rescan"
    => /\ response.returned = "library"
       /\ response.total = Len(musicLibrary)
       /\ request.by = "post"
            => /\ response.status = 200
               /\ response.success

\* ---- properties of the last claims ------------------------------------------
\* The session after one whole transition applied to the session <<cur, st>>:
\* the serial reading of play, pause, resume and stop.
SerialStep(op, id, cur, st) ==
  CASE op = "play" ->
         IF id # NoId /\ getMusicById(musicLibrary, id) # NULL
         THEN <<getMusicById(musicLibrary, id), "playing">> ELSE <<cur, st>>
    [] op = "pause" -> IF cur = NULL THEN <<cur, st>> ELSE <<cur, "paused">>
    [] op = "resume" -> IF cur = NULL THEN <<cur, st>> ELSE <<cur, "playing">>
    [] op = "stop" -> IF cur = NULL THEN <<cur, st>> ELSE <<NULL, "stopped">>

\* C31: playback requests of several clients, HTTP and realtime, are
\* serialized: every step that touches the session applies one whole
\* transition to the session the step before left, so every run is the
\* requests applied one at a time, and the session a request finds has its
\* status and its current entry from the same transition (an entry is
\* loaded exactly when the status is not stopped).
C31_Serialized ==
  [][/\ (currentlyPlaying = NULL) <=> (playbackStatus = "stopped")
     /\ Called =>
          /\ lastCall'.from = playbackStatus
          /\ <<currentlyPlaying', playbackStatus'>>
               = IF lastCall'.op \in PlaybackOps
                 THEN SerialStep(lastCall'.op, lastCall'.id,
                                 currentlyPlaying, playbackStatus)
                 ELSE <<currentlyPlaying, playbackStatus>>
     /\ ~Called => UNCHANGED <<currentlyPlaying, playbackStatus>>]_vars

\* C31: a realtime client's stop was applied to the session that earlier
\* requests had played and paused, while no realtime client but this one
\* was registered: the play or the pause before it came over HTTP or from a
\* client that has left.
C31_Witness ==
  /\ lastCall.via = "ws"
  /\ lastCall.op = "stop"
  /\ lastCall.error = ErrNone
  /\ lastCall.from = "paused"
  /\ clients = {lastCall.client}
  /\ currentlyPlaying = NULL
  /\ playbackStatus = "stopped"

\* C32: a scan fails outward only when the root path itself is
\* inaccessible; an unreadable subdirectory or an unreadable or unparsable
\* file below an accessible root never makes it fail.
C32_FailsOnlyOnRoot ==
  (request.op = "scan" /\ response.threw) => ~request.disk.accessible

\* C35: a scan that fails because the root path is inaccessible leaves the
\* installed snapshot exactly as it was before the scan started.
C35_FailedScanKeepsSnapshot ==
  [][(request'.op = "scan" /\ ~request'.disk.accessible /\ response'.threw)
       => musicLibrary' = musicLibrary]_vars

C34_OnlyPlaybackChangesSession ==
  [][<<currentlyPlaying, playbackStatus>>' # <<currentlyPlaying, playbackStatus>>
       => /\ Called
          /\ lastCall'.op \in PlaybackOps
          /\ lastCall'.error = ErrNone]_vars

C34_Witness ==
  /\ lastCall.via = "http"
  /\ lastCall.op = "status"
  /\ lastCall.body.status = "paused"
  /\ playbackStatus = "paused"
  /\ currentlyPlaying \notin {musicLibrary[i] : i \in DOMAIN musicLibrary}
  /\ musicLibrary # <<>>
  /\ heartbeat.tick = 1
  /\ clients # {}

\* A scan of the guarded scanner is walking the library.
Walking == \E s \in OverlapSlots : scans[s].pc = "walking"

\* The flag is set exactly while a scan is walking, a scan that ends clears
\* it, and a request is skipped only when it finds a scan walking.
FlagFollowsScan ==
  /\ isScanning <=> Walking
  /\ Cardinality({s \in OverlapSlots : scans[s].pc = "walking"}) <= 1
  /\ \A s \in OverlapSlots :
        (scans[s].pc = "walking" /\ scans'[s].pc = "idle") => ~isScanning'
  /\ (request' # request /\ request'.op = "rescan" /\ request'.skipped)
        => Walking

\* C36 as stated: in the guarded scanner the flag is set exactly for the
\* duration of a scan and cleared when it ends, a request that finds no scan
\* in flight is not skipped, every scan ends, and a scan that ends has
\* installed the snapshot it walked.
C36_RescanInstalls ==
  /\ [][/\ FlagFollowsScan
        /\ \A s \in OverlapSlots :
              (scans[s].pc = "walking" /\ scans'[s].pc = "idle")
                 => /\ ~request'.failed
                    /\ musicLibrary' = scans[s].files]_vars
  /\ (isScanning ~> ~isScanning)

\* C36, amended: the same, except that a scan whose walk fails ends without
\* installing a snapshot: the library stays as it was.
C36_RescanEnds ==
  /\ [][/\ FlagFollowsScan
        /\ \A s \in OverlapSlots :
              (scans[s].pc = "walking" /\ scans'[s].pc = "idle")
                 => IF request'.failed THEN musicLibrary' = musicLibrary
                    ELSE musicLibrary' = scans[s].files]_vars
  /\ (isScanning ~> ~isScanning)

C36_Witness ==
  /\ phase = "running"
  /\ request.op = "rescan"
  /\ request.by = "post"
  /\ ~request.skipped
  /\ request.failed
  /\ ~isScanning
  /\ ~Walking
  /\ musicLibrary # <<>>

\* C37: a client that has answered the last ping with a pong is alive until
\* the next tick, whatever else happens in between, and that tick keeps it
\* and pings it again; so a client that answers every ping is never removed
\* by the heartbeat.  Only a pong makes a registered client alive again: no
\* application message (a ping message included) does, and a client that
\* has not answered is removed by the next tick.
C37_PongKeepsAlive ==
  [][\A c \in clients :
       /\ (isAlive'[c] /\ ~isAlive[c])
            => /\ lastCall' = lastCall
               /\ heartbeat' = heartbeat
               /\ UNCHANGED <<clients, readyState>>
       /\ (isAlive[c] /\ ~isAlive'[c])
            => \/ heartbeat'.tick # heartbeat.tick /\ c \in clients'
               \/ c \notin clients' /\ heartbeat' = heartbeat
       /\ (heartbeat'.tick # heartbeat.tick)
            => /\ c \in clients' <=> isAlive[c]
               /\ c \in heartbeat'.terminated <=> ~isAlive[c]]_vars

C37_Witness ==
  /\ heartbeat.tick = 0
  /\ heartbeat.terminated = {2}
  /\ clients = {1}
  /\ ~isAlive[1]
  /\ lastCall.via = "ws"
  /\ lastCall.client = 2
  /\ lastCall.op = "ping"
  /\ lastCall.sent[2] = <<[type |-> "pong"]>>

\* C38: a realtime playback command that fails (play without an id or with
\* an id the catalog does not hold; pause, resume or stop with nothing
\* current) is answered with one message of type error to the client that
\* sent it; no other client is sent anything, so nobody receives a
\* playback_update, and the session stays as it was.
C38_FailedCommand ==
  [][(/\ lastCall' # lastCall
      /\ lastCall'.via = "ws"
      /\ lastCall'.op \in PlaybackOps
      /\ lastCall'.error # ErrNone)
       => /\ UNCHANGED <<currentlyPlaying, playbackStatus>>
          /\ Len(lastCall'.sent[lastCall'.client]) = 1
          /\ lastCall'.sent[lastCall'.client][1].type = "error"
          /\ lastCall'.sent[lastCall'.client][1].message = lastCall'.error
          /\ \A d \in ClientIds \ {lastCall'.client} : lastCall'.sent[d] = <<>>
          /\ \A d \in ClientIds :
                \A i \in DOMAIN lastCall'.sent[d] :
                   lastCall'.sent[d][i].type # "playback_update"]_vars

C38_Witness ==
  /\ lastCall.via = "ws"
  /\ lastCall.op = "play"
  /\ lastCall.id # NoId
  /\ lastCall.error = ErrNotFound
  /\ lastCall.from = "paused"
  /\ playbackStatus = "paused"
  /\ clients = ClientIds
  /\ \A d \in ClientIds : readyState[d] = "OPEN"
  /\ \A d \in ClientIds \ {lastCall.client} : lastCall.sent[d] = <<>>
  /\ lastCall.sent[lastCall.client][1].type = "error"

\* C39: at most one reconnect timer is live at any time (the one the hub's
\* handle refers to); the counter of consecutive failed attempts stays within
\* 0..maxReconnectAttempts; a successful connection leaves it at 0, so the
\* first failure after it schedules the next attempt after reconnectInterval
\* times one.
C39_OneTimerCounterReset ==
  /\ reconnectTimer.live = IF reconnectTimer.pending THEN 1 ELSE 0
  /\ reconnectAttempts \in 0..maxReconnectAttempts
  /\ xiaozhi \in {"connected", "announced"}
       => LET next == scheduleReconnect(reconnectAttempts, reconnectTimer) IN
          /\ reconnectAttempts = 0
          /\ next.attempts = 1
          /\ next.timer.pending
          /\ next.timer.live = 1
          /\ next.timer.delay = reconnectInterval * 1

C39_Witness ==
  /\ xiaozhi = "connected"
  /\ reconnectAttempts = 0
  /\ ~reconnectTimer.pending
  /\ reconnectTimer.live = 0
  /\ reconnectTimer.delay = reconnectInterval * maxReconnectAttempts

\* C40: once the application has been stopped the client registry is empty
\* and stays empty, no heartbeat tick and no reconnect attempt happens any
\* more (the reconnect timer is not pending and nothing about the attempts
\* changes), and no scan is started any more.
C40_NothingAfterStop ==
  /\ [](handles.stopped =>
          /\ clients = {}
          /\ ~reconnectTimer.pending
          /\ reconnectTimer.live = 0
          /\ ~handles.heartbeatInterval
          /\ ~handles.scanInterval)
  /\ [][handles.stopped =>
          /\ heartbeat' = heartbeat
          /\ reconnectAttempts' = reconnectAttempts
          /\ reconnectTimer' = reconnectTimer
          /\ xiaozhi' \in {xiaozhi, "announced"}
          /\ \A s \in ScanSlots :
                scans[s].pc = "idle" => scans'[s].pc = "idle"
          /\ handles' = handles]_vars

C40_Witness ==
  /\ handles.stopped
  /\ handles.wss = "closed"
  /\ heartbeat.tick = 1
  /\ xiaozhi = "failed"
  /\ reconnectAttempts = 2
  /\ reconnectTimer.delay = 2 * reconnectInterval
  /\ ~reconnectTimer.pending
  /\ \E c \in ClientIds : readyState[c] = "CLOSING"
  /\ \E s \in ScanSlots : scans[s].pc = "extracting"

============================================================================
